---------------------------- MODULE Spec2Model ----------------------------
(***************************************************************************)
(* A model of the GBCee Game Boy emulator core: the CPU (cpu.c, alu.c),    *)
(* the bus (mmu.c), the cartridge bank controller (mbc.c), the timer       *)
(* (timer.c), the interrupt controller (interrupts.c) and the run loop     *)
(* (main.c).  Every definition is translated from the C source; the        *)
(* C names are kept.                                                       *)
(***************************************************************************)
EXTENDS Integers, Sequences, FiniteSets, TLC

VARIABLES
    cpu,     \* struct CPU (cpu.h): the registers and the halted / ime latches
    mmu,     \* struct mmu_t: the memory arrays, IE / IF, the timer registers
    mbc,     \* the bank-controller registers of mbc.c
    running, \* main.c: TRUE until the run loop has left its while (true)
    hist,    \* the last calls made, newest first: the entry point, its
             \* arguments, its return value and the state it was called in
    nsteps   \* number of calls made so far

vars == <<cpu, mmu, mbc, running, hist, nsteps>>

---------------------------------------------------------------------------
(* Fixed-width integer arithmetic of C (uint8_t, uint16_t, int8_t).        *)

U8(x) == x % 256

U16(x) == x % 65536

\* (int8_t)x for a byte x
S8(x) == IF x >= 128 THEN x - 256 ELSE x

\* (x >> i) & 1
Bit(x, i) == (x \div (2 ^ i)) % 2

HI(x) == (x \div 256) % 256

LO(x) == x % 256

\* (hi << 8) | lo
MK16(hi, lo) == hi * 256 + lo

RECURSIVE AND(_, _)
\* x & y
AND(x, y) ==
    IF x = 0 \/ y = 0 THEN 0
    ELSE (x % 2) * (y % 2) + 2 * AND(x \div 2, y \div 2)

RECURSIVE OR(_, _)
\* x | y
OR(x, y) ==
    IF x = 0 THEN y
    ELSE IF y = 0 THEN x
    ELSE (IF (x % 2) + (y % 2) > 0 THEN 1 ELSE 0) + 2 * OR(x \div 2, y \div 2)

RECURSIVE XOR(_, _)
\* x ^ y
XOR(x, y) ==
    IF x = 0 THEN y
    ELSE IF y = 0 THEN x
    ELSE (((x % 2) + (y % 2)) % 2) + 2 * XOR(x \div 2, y \div 2)

\* x & ~(1 << i)
ClearBit(x, i) == x - Bit(x, i) * (2 ^ i)

\* x | (1 << i)
SetBit(x, i) == x + (1 - Bit(x, i)) * (2 ^ i)

FLAG_Z == 128

FLAG_N == 64

FLAG_H == 32

FLAG_C == 16

\* (f & FLAG) != 0 for one of the four flag masks
Flag(f, mask) == (f \div mask) % 2 = 1

---------------------------------------------------------------------------
(* The bus: mmu.c.  An array is a function on the offsets written so far;  *)
(* mmu_init zeroes every array, so an offset outside the domain reads 0.   *)

Get(arr, off) == IF off \in DOMAIN arr THEN arr[off] ELSE 0

Put(arr, off, v) ==
    IF off \in DOMAIN arr THEN [arr EXCEPT ![off] = v]
    ELSE [o \in (DOMAIN arr) \cup {off} |-> IF o = off THEN v ELSE arr[o]]

EmptyArr == [o \in {} |-> 0]

mmu_init(rom) ==
    [rom |-> rom, vram |-> EmptyArr, eram |-> EmptyArr, wram |-> EmptyArr,
     oam |-> EmptyArr, io |-> EmptyArr, hram |-> EmptyArr,
     interrupt_enable |-> 0, interrupt_flag |-> 0,
     internal_timer |-> 0, tima |-> 0, tma |-> 0, tac |-> 0]

mmu_read(m, addr) ==
    IF addr < 32768 THEN Get(m.rom, addr)
    ELSE IF addr < 40960 THEN Get(m.vram, addr - 32768)
    ELSE IF addr < 49152 THEN Get(m.eram, addr - 40960)
    ELSE IF addr < 57344 THEN Get(m.wram, addr - 49152)
    ELSE IF addr <= 65023 THEN Get(m.wram, addr - 57344)
    ELSE IF addr >= 65024 /\ addr <= 65183 THEN Get(m.oam, addr - 65024)
    ELSE IF addr >= 65184 /\ addr <= 65279 THEN 255
    ELSE IF addr >= 65280 /\ addr <= 65407 THEN
        IF addr = 65295 THEN m.interrupt_flag ELSE Get(m.io, addr - 65280)
    ELSE IF addr >= 65408 /\ addr <= 65534 THEN Get(m.hram, addr - 65408)
    ELSE IF addr = 65535 THEN m.interrupt_enable
    ELSE 255

\* mmu_write storing every byte in rom[] at its address
mmu_write_flat(m, addr, value) == [m EXCEPT !.rom = Put(@, addr, value)]

\* mmu_write with the echo branch (0xE000-0xFDFF) discarding the byte
mmu_write_echo_dropped(m, addr, value) ==
    IF addr < 32768 THEN m
    ELSE IF addr < 40960 THEN [m EXCEPT !.vram = Put(@, addr - 32768, value)]
    ELSE IF addr < 49152 THEN [m EXCEPT !.eram = Put(@, addr - 40960, value)]
    ELSE IF addr < 57344 THEN [m EXCEPT !.wram = Put(@, addr - 49152, value)]
    ELSE IF addr <= 65023 THEN m
    ELSE IF addr >= 65024 /\ addr <= 65183
        THEN [m EXCEPT !.oam = Put(@, addr - 65024, value)]
    ELSE IF addr >= 65184 /\ addr <= 65279 THEN m
    ELSE IF addr >= 65280 /\ addr <= 65407 THEN
        IF addr = 65295 THEN [m EXCEPT !.interrupt_flag = value]
        ELSE [m EXCEPT !.io = Put(@, addr - 65280, value)]
    ELSE IF addr >= 65408 /\ addr <= 65534
        THEN [m EXCEPT !.hram = Put(@, addr - 65408, value)]
    ELSE IF addr = 65535 THEN [m EXCEPT !.interrupt_enable = value]
    ELSE m

\* mmu_write with the unusable region (0xFEA0-0xFEFF) stored in io[]
mmu_write_unusable_stored(m, addr, value) ==
    IF addr < 32768 THEN m
    ELSE IF addr < 40960 THEN [m EXCEPT !.vram = Put(@, addr - 32768, value)]
    ELSE IF addr < 49152 THEN [m EXCEPT !.eram = Put(@, addr - 40960, value)]
    ELSE IF addr < 57344 THEN [m EXCEPT !.wram = Put(@, addr - 49152, value)]
    ELSE IF addr <= 65023 THEN [m EXCEPT !.wram = Put(@, addr - 57344, value)]
    ELSE IF addr >= 65024 /\ addr <= 65183
        THEN [m EXCEPT !.oam = Put(@, addr - 65024, value)]
    ELSE IF addr >= 65184 /\ addr <= 65279
        THEN [m EXCEPT !.io = Put(@, addr - 65184, value)]
    ELSE IF addr >= 65280 /\ addr <= 65407 THEN
        IF addr = 65295 THEN [m EXCEPT !.interrupt_flag = value]
        ELSE [m EXCEPT !.io = Put(@, addr - 65280, value)]
    ELSE IF addr >= 65408 /\ addr <= 65534
        THEN [m EXCEPT !.hram = Put(@, addr - 65408, value)]
    ELSE IF addr = 65535 THEN [m EXCEPT !.interrupt_enable = value]
    ELSE m

mmu_write(m, addr, value) ==
    IF addr < 32768 THEN m
    ELSE IF addr < 40960 THEN [m EXCEPT !.vram = Put(@, addr - 32768, value)]
    ELSE IF addr < 49152 THEN [m EXCEPT !.eram = Put(@, addr - 40960, value)]
    ELSE IF addr < 57344 THEN [m EXCEPT !.wram = Put(@, addr - 49152, value)]
    ELSE IF addr <= 65023 THEN [m EXCEPT !.wram = Put(@, addr - 57344, value)]
    ELSE IF addr >= 65024 /\ addr <= 65183
        THEN [m EXCEPT !.oam = Put(@, addr - 65024, value)]
    ELSE IF addr >= 65184 /\ addr <= 65279 THEN m
    ELSE IF addr >= 65280 /\ addr <= 65407 THEN
        IF addr = 65295 THEN [m EXCEPT !.interrupt_flag = value]
        ELSE [m EXCEPT !.io = Put(@, addr - 65280, value)]
    ELSE IF addr >= 65408 /\ addr <= 65534
        THEN [m EXCEPT !.hram = Put(@, addr - 65408, value)]
    ELSE IF addr = 65535 THEN [m EXCEPT !.interrupt_enable = value]
    ELSE m

mmu_get_if_register(m) == m.interrupt_flag

mmu_get_ie_register(m) == m.interrupt_enable

---------------------------------------------------------------------------
(* Flag helpers: cpu.F |= mask, cpu.F &= ~mask on one flag mask.           *)

SetFlag(f, mask) == IF Flag(f, mask) THEN f ELSE f + mask

ClearFlag(f, mask) == IF Flag(f, mask) THEN f - mask ELSE f

\* the byte with exactly the given flags set, as built by cpu.F = 0; cpu.F |= ...
Flags(z, n, h, c) ==
    (IF z THEN FLAG_Z ELSE 0) + (IF n THEN FLAG_N ELSE 0)
    + (IF h THEN FLAG_H ELSE 0) + (IF c THEN FLAG_C ELSE 0)

REG_BC(c) == MK16(c.B, c.C)

REG_DE(c) == MK16(c.D, c.E)

REG_HL(c) == MK16(c.H, c.L)

SET_REG_BC(c, val) == [c EXCEPT !.B = HI(val), !.C = LO(val)]

SET_REG_DE(c, val) == [c EXCEPT !.D = HI(val), !.E = LO(val)]

SET_REG_HL(c, val) == [c EXCEPT !.H = HI(val), !.L = LO(val)]

---------------------------------------------------------------------------
(* alu.c.  An operation on the accumulator returns the new CPU record; an  *)
(* operation on a byte returns the result byte and the new F.              *)

ADD_A(c, val) ==
    LET result == c.A + val
    IN  [c EXCEPT !.A = result % 256,
                  !.F = Flags(result % 256 = 0, FALSE,
                              (c.A % 16) + (val % 16) > 15, result > 255)]

\* ADC_A without the carry: the sum and the flags of A + val
ADC_A_carry_ignored(c, val) ==
    LET result == c.A + val
    IN  [c EXCEPT !.A = result % 256,
                  !.F = Flags(result % 256 = 0, FALSE,
                              Bit((c.A % 16) + (val % 16), 4) = 1,
                              result > 255)]

ADC_A(c, val) ==
    LET carry == IF Flag(c.F, FLAG_C) THEN 1 ELSE 0
        result == c.A + val + carry
    IN  [c EXCEPT !.A = result % 256,
                  !.F = Flags(result % 256 = 0, FALSE,
                              Bit((c.A % 16) + (val % 16) + carry, 4) = 1,
                              result > 255)]

SUB_A(c, val) ==
    LET a == U8(c.A - val)
    IN  [c EXCEPT !.A = a,
                  !.F = Flags(a = 0, TRUE, (c.A % 16) < (val % 16), c.A < val)]

SBC_A(c, val) ==
    LET carry == IF Flag(c.F, FLAG_C) THEN 1 ELSE 0
        result == U16(c.A - val - carry)
    IN  [c EXCEPT !.A = result % 256,
                  !.F = Flags(result % 256 = 0, TRUE,
                              (c.A % 16) < ((val % 16) + carry),
                              c.A < (val + carry))]

CP_A(c, val) ==
    LET result == U8(c.A - val)
    IN  [c EXCEPT !.F = Flags(result = 0, TRUE, (c.A % 16) < (val % 16),
                              c.A < val)]

ADD_HL(c, val) ==
    LET hl == REG_HL(c)
        result == hl + val
        f1 == ClearFlag(c.F, FLAG_H)
        f2 == IF (hl % 4096) + (val % 4096) > 4095
              THEN SetFlag(f1, FLAG_H) ELSE ClearFlag(f1, FLAG_H)
        f3 == IF result > 65535
              THEN SetFlag(f2, FLAG_C) ELSE ClearFlag(f2, FLAG_C)
    IN  [c EXCEPT !.F = f3, !.H = HI(result), !.L = LO(result)]

\* val is the int8_t parameter: a value in -128 .. 127
ADD_SP(c, val) ==
    LET sp == c.SP
        result == U16(sp + val)
    IN  [c EXCEPT !.SP = result,
                  !.F = Flags(FALSE, FALSE,
                              (sp % 16) + (U16(val) % 16) > 15,
                              (sp % 256) + (U16(val) % 256) > 255)]

INC_16(regist) == U16(regist + 1)

DEC_16(regist) == U16(regist - 1)

AND_A(c, val) ==
    LET a == AND(c.A, val)
    IN  [c EXCEPT !.A = a, !.F = Flags(a = 0, FALSE, TRUE, FALSE)]

OR_A(c, val) ==
    LET a == OR(c.A, val)
    IN  [c EXCEPT !.A = a, !.F = Flags(a = 0, FALSE, FALSE, FALSE)]

XOR_A(c, val) ==
    LET a == XOR(c.A, val)
    IN  [c EXCEPT !.A = a, !.F = Flags(a = 0, FALSE, FALSE, FALSE)]

SWAP(f, val) ==
    LET result == U8((val \div 16) + (val * 16))
    IN  [val |-> result, F |-> IF result = 0 THEN FLAG_Z ELSE 0]

INC(f, val) ==
    LET result == U8(val + 1)
        f1 == AND(f, FLAG_C)
        f2 == IF result = 0 THEN SetFlag(f1, FLAG_Z) ELSE f1
        f3 == IF val % 16 = 15 THEN SetFlag(f2, FLAG_H) ELSE f2
    IN  [val |-> result, F |-> f3]

DEC(f, val) ==
    LET result == U8(val - 1)
        f1 == SetFlag(AND(f, FLAG_C), FLAG_N)
        f2 == IF result = 0 THEN SetFlag(f1, FLAG_Z) ELSE f1
        f3 == IF val % 16 = 0 THEN SetFlag(f2, FLAG_H) ELSE f2
    IN  [val |-> result, F |-> f3]

DAA(c) ==
    LET a == c.A
        n == Flag(c.F, FLAG_N)
        lowAdj == IF n THEN Flag(c.F, FLAG_H)
                  ELSE Flag(c.F, FLAG_H) \/ a > 9
        highAdj == IF n THEN Flag(c.F, FLAG_C)
                   ELSE Flag(c.F, FLAG_C) \/ a > 153
        adjust == (IF lowAdj THEN 6 ELSE 0) + (IF highAdj THEN 96 ELSE 0)
        carry == ~n /\ highAdj
        a2 == IF n THEN U8(a - adjust) ELSE U8(a + adjust)
        f1 == ClearFlag(ClearFlag(c.F, FLAG_Z), FLAG_H)
        f2 == IF a2 = 0 THEN SetFlag(f1, FLAG_Z) ELSE f1
        f3 == IF carry \/ Flag(f2, FLAG_C) THEN SetFlag(f2, FLAG_C) ELSE f2
    IN  [c EXCEPT !.A = a2, !.F = f3]

CPL(c) ==
    [c EXCEPT !.A = 255 - c.A, !.F = SetFlag(SetFlag(c.F, FLAG_N), FLAG_H)]

CCF(c) ==
    LET f1 == ClearFlag(ClearFlag(c.F, FLAG_N), FLAG_H)
    IN  [c EXCEPT !.F = IF Flag(f1, FLAG_C) THEN f1 - FLAG_C ELSE f1 + FLAG_C]

SCF(c) ==
    [c EXCEPT !.F = SetFlag(ClearFlag(ClearFlag(c.F, FLAG_N), FLAG_H), FLAG_C)]

\* RLC and RL leave F alone and hand the carry back
RLC(value) ==
    LET bit7 == Bit(value, 7)
    IN  [val |-> U8(value * 2) + bit7, carry |-> bit7 = 1]

RL(value, carry_in) ==
    [val |-> U8(value * 2) + (IF carry_in THEN 1 ELSE 0),
     carry |-> Bit(value, 7) = 1]

RRC(f, value) ==
    LET bit0 == value % 2
        result == (value \div 2) + bit0 * 128
    IN  [val |-> result, F |-> Flags(result = 0, FALSE, FALSE, bit0 = 1)]

RR(f, value) ==
    LET carry == IF Flag(f, FLAG_C) THEN 1 ELSE 0
        bit0 == value % 2
        result == (value \div 2) + carry * 128
    IN  [val |-> result, F |-> Flags(result = 0, FALSE, FALSE, bit0 = 1)]

SLA(f, old_) ==
    LET result == U8(old_ * 2)
    IN  [val |-> result, F |-> Flags(result = 0, FALSE, FALSE, Bit(old_, 7) = 1)]

SRA(f, old_) ==
    LET result == (old_ \div 2) + Bit(old_, 7) * 128
    IN  [val |-> result, F |-> Flags(result = 0, FALSE, FALSE, old_ % 2 = 1)]

SRL(f, old_) ==
    LET result == old_ \div 2
    IN  [val |-> result, F |-> Flags(result = 0, FALSE, FALSE, old_ % 2 = 1)]

\* BIT only changes F
BIT(f, value, bit) ==
    LET f1 == ClearFlag(SetFlag(AND(f, FLAG_C), FLAG_H), FLAG_N)
    IN  IF Bit(value, bit) = 0 THEN SetFlag(f1, FLAG_Z) ELSE ClearFlag(f1, FLAG_Z)

SET(value, bit) == SetBit(value, bit)

RES(value, bit) == ClearBit(value, bit)

---------------------------------------------------------------------------
(* cpu.c: reset, operand fetch and the stack.  A machine state s is the    *)
(* pair [cpu, mmu]; an executed opcode yields [cpu, mmu, ret].             *)

cpu_reset ==
    [A |-> 1, F |-> 176, B |-> 0, C |-> 19, D |-> 0, E |-> 216, H |-> 1,
     L |-> 77, SP |-> 65534, PC |-> 256, halted |-> FALSE,
     ime |-> FALSE, ime_enable |-> FALSE, ime_disable |-> FALSE]

\* the byte fetch_d8 reads; the caller advances PC by one
fetch_d8(s) == mmu_read(s.mmu, s.cpu.PC)

\* the word fetch_d16 reads (low byte first); the caller advances PC by two
fetch_d16(s) ==
    MK16(mmu_read(s.mmu, U16(s.cpu.PC + 1)), mmu_read(s.mmu, s.cpu.PC))

\* cpu.PC advanced by the n operand bytes an opcode fetched
Adv(c, n) == [c EXCEPT !.PC = U16(@ + n)]

Done(c, m) == [cpu |-> c, mmu |-> m, ret |-> TRUE]

\* push16: mmu_write(--cpu.SP, val >> 8); mmu_write(--cpu.SP, val & 0xFF)
push16(s, val) ==
    LET sp1 == U16(s.cpu.SP - 1)
        sp2 == U16(s.cpu.SP - 2)
    IN  [cpu |-> [s.cpu EXCEPT !.SP = sp2],
         mmu |-> mmu_write(mmu_write(s.mmu, sp1, HI(val)), sp2, LO(val))]

\* the word a return reads at SP (low byte at SP, high byte at SP + 1)
pop16(s) ==
    MK16(mmu_read(s.mmu, U16(s.cpu.SP + 1)), mmu_read(s.mmu, s.cpu.SP))

\* operand index of an opcode: 0..7 = B, C, D, E, H, L, (HL), A
GetR(s, i) ==
    CASE i = 0 -> s.cpu.B [] i = 1 -> s.cpu.C [] i = 2 -> s.cpu.D
      [] i = 3 -> s.cpu.E [] i = 4 -> s.cpu.H [] i = 5 -> s.cpu.L
      [] i = 6 -> mmu_read(s.mmu, REG_HL(s.cpu)) [] OTHER -> s.cpu.A

SetR(s, i, v) ==
    CASE i = 0 -> [s EXCEPT !.cpu.B = v] [] i = 1 -> [s EXCEPT !.cpu.C = v]
      [] i = 2 -> [s EXCEPT !.cpu.D = v] [] i = 3 -> [s EXCEPT !.cpu.E = v]
      [] i = 4 -> [s EXCEPT !.cpu.H = v] [] i = 5 -> [s EXCEPT !.cpu.L = v]
      [] i = 6 -> [s EXCEPT !.mmu = mmu_write(@, REG_HL(s.cpu), v)]
      [] OTHER -> [s EXCEPT !.cpu.A = v]

---------------------------------------------------------------------------
(* execute_opcode, one operator per family of the switch.                  *)

OpLdRN == {6, 14, 22, 30, 38, 46, 62}

OpLdRR == (64 .. 127) \ {118}

OpLd8Misc == {54, 10, 26, 250, 2, 18, 234, 242, 226, 58, 50, 42, 34, 224, 240}

\* 8-bit loads: cpu.c 172-526
exec_ld8(s, opcode) ==
    LET c == s.cpu
        m == s.mmu
        hl == REG_HL(c)
    IN  CASE opcode \in OpLdRN ->
               LET t == SetR(s, opcode \div 8, fetch_d8(s))
               IN  Done(Adv(t.cpu, 1), t.mmu)
          [] opcode \in OpLdRR ->
               LET t == SetR(s, (opcode - 64) \div 8, GetR(s, opcode % 8))
               IN  Done(t.cpu, t.mmu)
          [] opcode = 54 -> Done(Adv(c, 1), mmu_write(m, hl, fetch_d8(s)))
          [] opcode = 10 -> Done([c EXCEPT !.A = mmu_read(m, REG_BC(c))], m)
          [] opcode = 26 -> Done([c EXCEPT !.A = mmu_read(m, REG_DE(c))], m)
          [] opcode = 250 ->
               Done([Adv(c, 2) EXCEPT !.A = mmu_read(m, fetch_d16(s))], m)
          [] opcode = 2 -> Done(c, mmu_write(m, REG_BC(c), c.A))
          [] opcode = 18 -> Done(c, mmu_write(m, REG_DE(c), c.A))
          [] opcode = 234 -> Done(Adv(c, 2), mmu_write(m, fetch_d16(s), c.A))
          [] opcode = 242 -> Done([c EXCEPT !.A = mmu_read(m, 65280 + c.C)], m)
          [] opcode = 226 -> Done(c, mmu_write(m, 65280 + c.C, c.A))
          [] opcode = 58 ->
               Done([SET_REG_HL(c, U16(hl - 1)) EXCEPT !.A = mmu_read(m, hl)], m)
          [] opcode = 50 ->
               Done(SET_REG_HL(c, U16(hl - 1)), mmu_write(m, hl, c.A))
          [] opcode = 42 ->
               Done([SET_REG_HL(c, U16(hl + 1)) EXCEPT !.A = mmu_read(m, hl)], m)
          [] opcode = 34 ->
               Done(SET_REG_HL(c, U16(hl + 1)), mmu_write(m, hl, c.A))
          [] opcode = 224 ->
               Done(Adv(c, 1), mmu_write(m, 65280 + fetch_d8(s), c.A))
          [] OTHER ->
               Done([Adv(c, 1) EXCEPT !.A = mmu_read(m, 65280 + fetch_d8(s))], m)

OpLd16 == {1, 17, 33, 49, 249, 248, 8}

\* 16-bit loads: cpu.c 543-656
exec_ld16(s, opcode) ==
    LET c == s.cpu
        m == s.mmu
    IN  CASE opcode = 1 -> Done(SET_REG_BC(Adv(c, 2), fetch_d16(s)), m)
          [] opcode = 17 -> Done(SET_REG_DE(Adv(c, 2), fetch_d16(s)), m)
          [] opcode = 33 -> Done(SET_REG_HL(Adv(c, 2), fetch_d16(s)), m)
          [] opcode = 49 -> Done([Adv(c, 2) EXCEPT !.SP = fetch_d16(s)], m)
          [] opcode = 249 -> Done([c EXCEPT !.SP = REG_HL(c)], m)
          [] opcode = 248 ->
               LET n == S8(fetch_d8(s))
                   sp == c.SP
                   result == U16(sp + n)
                   temp == XOR(XOR(sp, U16(n)), result)
                   f1 == ClearFlag(ClearFlag(c.F, FLAG_Z), FLAG_N)
                   f2 == IF Bit(temp, 4) = 1
                         THEN SetFlag(f1, FLAG_H) ELSE ClearFlag(f1, FLAG_H)
                   f3 == IF Bit(temp, 8) = 1
                         THEN SetFlag(f2, FLAG_C) ELSE ClearFlag(f2, FLAG_C)
               IN  Done([SET_REG_HL(Adv(c, 1), result) EXCEPT !.F = f3], m)
          [] OTHER ->
               LET addr == fetch_d16(s)
               IN  Done(Adv(c, 2),
                        mmu_write(mmu_write(m, addr, LO(c.SP)),
                                  U16(addr + 1), HI(c.SP)))

OpPush == {245, 197, 213, 229}

OpPop == {241, 193, 209, 225}

\* value without the & 0xF0
WholeByte(value) == value

\* value & 0xF0: the byte PUSH AF stores for F and POP AF loads into F
HiNibble(value) == value - (value % 16)

\* exec_stack with PUSH writing the low byte first, the high byte second
exec_stack_low_first(s, opcode) ==
    LET c == s.cpu
        m == s.mmu
        sp1 == U16(c.SP - 1)
        sp2 == U16(c.SP - 2)
        Push(hi, lo) ==
            Done([c EXCEPT !.SP = sp2],
                 mmu_write(mmu_write(m, sp1, lo), sp2, hi))
        lo_ == mmu_read(m, c.SP)
        hi_ == mmu_read(m, U16(c.SP + 1))
        popped == [c EXCEPT !.SP = U16(c.SP + 2)]
    IN  CASE opcode = 245 -> Push(c.A, HiNibble(c.F))
          [] opcode = 197 -> Push(c.B, c.C)
          [] opcode = 213 -> Push(c.D, c.E)
          [] opcode = 229 -> Push(c.H, c.L)
          [] opcode = 241 ->
               Done([popped EXCEPT !.F = HiNibble(lo_), !.A = hi_], m)
          [] opcode = 193 -> Done([popped EXCEPT !.C = lo_, !.B = hi_], m)
          [] opcode = 209 -> Done([popped EXCEPT !.E = lo_, !.D = hi_], m)
          [] OTHER -> Done([popped EXCEPT !.L = lo_, !.H = hi_], m)

\* PUSH rr: cpu.c 674-699; POP rr: cpu.c 717-743
exec_stack(s, opcode) ==
    LET c == s.cpu
        m == s.mmu
        sp1 == U16(c.SP - 1)
        sp2 == U16(c.SP - 2)
        Push(hi, lo) ==
            Done([c EXCEPT !.SP = sp2],
                 mmu_write(mmu_write(m, sp1, hi), sp2, lo))
        lo_ == mmu_read(m, c.SP)
        hi_ == mmu_read(m, U16(c.SP + 1))
        popped == [c EXCEPT !.SP = U16(c.SP + 2)]
    IN  CASE opcode = 245 -> Push(c.A, HiNibble(c.F))
          [] opcode = 197 -> Push(c.B, c.C)
          [] opcode = 213 -> Push(c.D, c.E)
          [] opcode = 229 -> Push(c.H, c.L)
          [] opcode = 241 ->
               Done([popped EXCEPT !.F = HiNibble(lo_), !.A = hi_], m)
          [] opcode = 193 -> Done([popped EXCEPT !.C = lo_, !.B = hi_], m)
          [] opcode = 209 -> Done([popped EXCEPT !.E = lo_, !.D = hi_], m)
          [] OTHER -> Done([popped EXCEPT !.L = lo_, !.H = hi_], m)

OpAluR == 128 .. 191

OpAluN == {198, 206, 214, 222, 230, 238, 246, 254}

\* the eight accumulator operations, in opcode order
AluOp(c, k, val) ==
    CASE k = 0 -> ADD_A(c, val) [] k = 1 -> ADC_A(c, val)
      [] k = 2 -> SUB_A(c, val) [] k = 3 -> SBC_A(c, val)
      [] k = 4 -> AND_A(c, val) [] k = 5 -> XOR_A(c, val)
      [] k = 6 -> OR_A(c, val) [] OTHER -> CP_A(c, val)

OpIncR == {60, 4, 12, 20, 28, 36, 44, 52}

OpDecR == {61, 5, 13, 21, 29, 37, 45, 53}

\* 8-bit ALU: cpu.c 764-1049
exec_alu8(s, opcode) ==
    LET c == s.cpu
        m == s.mmu
    IN  CASE opcode \in OpAluR ->
               Done(AluOp(c, (opcode - 128) \div 8, GetR(s, opcode % 8)), m)
          [] opcode \in OpAluN ->
               Done(AluOp(Adv(c, 1), (opcode - 192) \div 8, fetch_d8(s)), m)
          [] opcode \in OpIncR ->
               LET r == INC(c.F, GetR(s, opcode \div 8))
                   t == SetR(s, opcode \div 8, r.val)
               IN  Done([t.cpu EXCEPT !.F = r.F], t.mmu)
          [] OTHER ->
               LET r == DEC(c.F, GetR(s, opcode \div 8))
                   t == SetR(s, opcode \div 8, r.val)
               IN  Done([t.cpu EXCEPT !.F = r.F], t.mmu)

OpAlu16 == {9, 25, 41, 57, 232, 3, 19, 35, 51, 11, 27, 43, 59}

\* 16-bit arithmetic: cpu.c 1086-1180
exec_alu16(s, opcode) ==
    LET c == s.cpu
        m == s.mmu
    IN  CASE opcode = 9 -> Done(ADD_HL(c, REG_BC(c)), m)
          [] opcode = 25 -> Done(ADD_HL(c, REG_DE(c)), m)
          [] opcode = 41 -> Done(ADD_HL(c, REG_HL(c)), m)
          [] opcode = 57 -> Done(ADD_HL(c, c.SP), m)
          [] opcode = 232 -> Done(ADD_SP(c, S8(c.SP % 256)), m)
          [] opcode = 3 -> Done(SET_REG_BC(c, INC_16(REG_BC(c))), m)
          [] opcode = 19 -> Done(SET_REG_DE(c, INC_16(REG_DE(c))), m)
          [] opcode = 35 -> Done(SET_REG_HL(c, INC_16(REG_HL(c))), m)
          [] opcode = 51 -> Done([c EXCEPT !.SP = INC_16(c.SP)], m)
          [] opcode = 11 -> Done(SET_REG_BC(c, DEC_16(REG_BC(c))), m)
          [] opcode = 27 -> Done(SET_REG_DE(c, DEC_16(REG_DE(c))), m)
          [] opcode = 43 -> Done(SET_REG_HL(c, DEC_16(REG_HL(c))), m)
          [] OTHER -> Done([c EXCEPT !.SP = DEC_16(c.SP)], m)

OpMisc == {0, 39, 47, 63, 55, 243, 251, 7, 23, 15, 31}

\* NOP, DAA, CPL, CCF, SCF, DI, EI, RLCA, RLA, RRCA, RRA: cpu.c 150, 1200-1359
exec_misc(s, opcode) ==
    LET c == s.cpu
        m == s.mmu
        carry == IF Flag(c.F, FLAG_C) THEN 1 ELSE 0
        bit7 == Bit(c.A, 7)
        bit0 == c.A % 2
        CarryOnly(b) == IF b = 1 THEN FLAG_C ELSE 0
    IN  CASE opcode = 0 -> Done(c, m)
          [] opcode = 39 -> Done(DAA(c), m)
          [] opcode = 47 -> Done(CPL(c), m)
          [] opcode = 63 -> Done(CCF(c), m)
          [] opcode = 55 -> Done(SCF(c), m)
          [] opcode = 243 -> Done([c EXCEPT !.ime_disable = TRUE], m)
          [] opcode = 251 -> Done([c EXCEPT !.ime_enable = TRUE], m)
          [] opcode = 7 ->
               Done([c EXCEPT !.A = U8(c.A * 2) + bit7, !.F = CarryOnly(bit7)], m)
          [] opcode = 23 ->
               Done([c EXCEPT !.A = U8(c.A * 2) + carry, !.F = CarryOnly(bit7)], m)
          [] opcode = 15 ->
               Done([c EXCEPT !.A = (c.A \div 2) + bit0 * 128,
                              !.F = CarryOnly(bit0)], m)
          [] OTHER ->
               Done([c EXCEPT !.A = (c.A \div 2) + carry * 128,
                              !.F = CarryOnly(bit0)], m)

\* the condition NZ, Z, NC, C selected by bits 4..3 of a conditional opcode
Cond(f, opcode) ==
    LET k == (opcode \div 8) % 4
    IN  CASE k = 0 -> ~Flag(f, FLAG_Z) [] k = 1 -> Flag(f, FLAG_Z)
          [] k = 2 -> ~Flag(f, FLAG_C) [] OTHER -> Flag(f, FLAG_C)

OpJpCc == {194, 202, 210, 218}

OpJrCc == {32, 40, 48, 56}

OpJump == {195, 233, 24} \cup OpJpCc \cup OpJrCc

\* JP, JP cc, JP HL, JR, JR cc: cpu.c 1373-1504
exec_jump(s, opcode) ==
    LET c == s.cpu
        m == s.mmu
        offset == S8(fetch_d8(s))
    IN  CASE opcode = 195 -> Done([c EXCEPT !.PC = fetch_d16(s)], m)
          [] opcode \in OpJpCc ->
               Done(IF Cond(c.F, opcode)
                    THEN [c EXCEPT !.PC = fetch_d16(s)] ELSE Adv(c, 2), m)
          [] opcode = 233 -> Done([c EXCEPT !.PC = REG_HL(c)], m)
          [] opcode = 24 -> Done([c EXCEPT !.PC = U16(c.PC + 1 + offset)], m)
          [] OTHER ->
               Done(IF Cond(c.F, opcode)
                    THEN [c EXCEPT !.PC = U16(c.PC + 1 + offset)]
                    ELSE Adv(c, 1), m)

OpCallCc == {196, 204, 212, 220}

OpRst == {199, 207, 215, 223, 231, 239, 247, 255}

OpRetCc == {192, 200, 208, 216}

OpCall == {205, 201, 217} \cup OpCallCc \cup OpRst \cup OpRetCc

\* exec_call with CALL nn pushing the PC it had before fetch_d16 (the address
\* of the operand, not of the next instruction)
exec_call_pushes_operand_addr(s, opcode) ==
    LET c == s.cpu
        m == s.mmu
        Call(t, addr) ==
            LET p == push16(t, t.cpu.PC)
            IN  Done([p.cpu EXCEPT !.PC = addr], p.mmu)
        ret_ == [c EXCEPT !.SP = U16(c.SP + 2), !.PC = pop16(s)]
    IN  CASE opcode = 205 -> Call(s, fetch_d16(s))
          [] opcode \in OpCallCc ->
               IF Cond(c.F, opcode)
               THEN Call([s EXCEPT !.cpu = Adv(c, 2)], fetch_d16(s))
               ELSE Done(Adv(c, 2), m)
          [] opcode \in OpRst -> Call(s, opcode - 199)
          [] opcode = 201 -> Done(ret_, m)
          [] opcode \in OpRetCc ->
               Done(IF Cond(c.F, opcode) THEN ret_ ELSE c, m)
          [] OTHER -> Done([ret_ EXCEPT !.ime = TRUE], m)

\* CALL, CALL cc, RST, RET, RET cc, RETI: cpu.c 1517-1699
exec_call(s, opcode) ==
    LET c == s.cpu
        m == s.mmu
        Call(t, addr) ==
            LET p == push16(t, t.cpu.PC)
            IN  Done([p.cpu EXCEPT !.PC = addr], p.mmu)
        ret_ == [c EXCEPT !.SP = U16(c.SP + 2), !.PC = pop16(s)]
    IN  CASE opcode = 205 -> Call([s EXCEPT !.cpu = Adv(c, 2)], fetch_d16(s))
          [] opcode \in OpCallCc ->
               IF Cond(c.F, opcode)
               THEN Call([s EXCEPT !.cpu = Adv(c, 2)], fetch_d16(s))
               ELSE Done(Adv(c, 2), m)
          [] opcode \in OpRst -> Call(s, opcode - 199)
          [] opcode = 201 -> Done(ret_, m)
          [] opcode \in OpRetCc ->
               Done(IF Cond(c.F, opcode) THEN ret_ ELSE c, m)
          [] OTHER -> Done([ret_ EXCEPT !.ime = TRUE], m)

\* HALT, STOP and the default branch: cpu.c 1703-1725
exec_halt(s, opcode) ==
    LET c == s.cpu
        m == s.mmu
    IN  CASE opcode = 118 ->
               [cpu |-> [c EXCEPT !.halted = TRUE], mmu |-> m, ret |-> FALSE]
          [] opcode = 16 -> Done([Adv(c, 1) EXCEPT !.halted = TRUE], m)
          [] OTHER ->
               [cpu |-> [c EXCEPT !.PC = U16(@ - 1), !.halted = TRUE],
                mmu |-> m, ret |-> FALSE]

execute_opcode(s, opcode) ==
    CASE opcode \in OpLdRN \cup OpLdRR \cup OpLd8Misc -> exec_ld8(s, opcode)
      [] opcode \in OpLd16 -> exec_ld16(s, opcode)
      [] opcode \in OpPush \cup OpPop -> exec_stack(s, opcode)
      [] opcode \in OpAluR \cup OpAluN \cup OpIncR \cup OpDecR ->
           exec_alu8(s, opcode)
      [] opcode \in OpAlu16 -> exec_alu16(s, opcode)
      [] opcode \in OpMisc -> exec_misc(s, opcode)
      [] opcode \in OpJump -> exec_jump(s, opcode)
      [] opcode \in OpCall -> exec_call(s, opcode)
      [] OTHER -> exec_halt(s, opcode)

---------------------------------------------------------------------------
(* execute_cb_opcode: cpu.c 1738-2237.                                     *)

\* RLC r / RL r (0x00-0x07, 0x10-0x17): the case builds F itself, and the
\* cases for A (0x07, 0x17) leave Z clear
exec_cb_rl(s, opcode) ==
    LET i == opcode % 8
        r == IF opcode < 8 THEN RLC(GetR(s, i))
             ELSE RL(GetR(s, i), Flag(s.cpu.F, FLAG_C))
        t == SetR(s, i, r.val)
        f == Flags(i # 7 /\ r.val = 0, FALSE, FALSE, r.carry)
    IN  Done([t.cpu EXCEPT !.F = f], t.mmu)

\* RRC, RR, SLA, SRA, SWAP, SRL (0x08-0x0F, 0x18-0x3F): the alu.c helper sets F
exec_cb_shift(s, opcode) ==
    LET i == opcode % 8
        k == opcode \div 8
        v == GetR(s, i)
        f == s.cpu.F
        r == CASE k = 1 -> RRC(f, v) [] k = 3 -> RR(f, v) [] k = 4 -> SLA(f, v)
               [] k = 5 -> SRA(f, v) [] k = 6 -> SWAP(f, v) [] OTHER -> SRL(f, v)
        t == SetR(s, i, r.val)
    IN  Done([t.cpu EXCEPT !.F = r.F], t.mmu)

\* BIT b,r (0x40-0x7F), RES b,r (0x80-0xBF), SET b,r (0xC0-0xFF)
exec_cb_bit(s, opcode) ==
    LET bit == (opcode \div 8) % 8
        index == opcode % 8
        v == GetR(s, index)
    IN  IF opcode < 128 THEN Done([s.cpu EXCEPT !.F = BIT(@, v, bit)], s.mmu)
        ELSE LET t == SetR(s, index, IF opcode < 192 THEN RES(v, bit)
                                       ELSE SET(v, bit))
             IN  Done(t.cpu, t.mmu)

execute_cb_opcode(s, opcode) ==
    IF opcode < 8 \/ (opcode >= 16 /\ opcode < 24) THEN exec_cb_rl(s, opcode)
    ELSE IF opcode < 64 THEN exec_cb_shift(s, opcode)
    ELSE exec_cb_bit(s, opcode)

---------------------------------------------------------------------------
(* cpu_step: cpu.c 50-95.  The result is [cpu, mmu, ret, opcode], ret the  *)
(* int returned and opcode the byte fetched (-1 when none was).            *)

BoolToInt(b) == IF b THEN 1 ELSE 0

\* the delayed IME effects applied after execute_opcode
ime_commit(c) ==
    LET c1 == IF c.ime_enable
              THEN [c EXCEPT !.ime = TRUE, !.ime_enable = FALSE] ELSE c
    IN  IF c1.ime_disable
        THEN [c1 EXCEPT !.ime = FALSE, !.ime_disable = FALSE] ELSE c1

\* cpu_step without the test of cpu.halted: a halted CPU fetches and executes
cpu_step_halt_ignored(s) ==
    IF s.cpu.PC = 65535 THEN
        [cpu |-> [s.cpu EXCEPT !.halted = TRUE], mmu |-> s.mmu, ret |-> 4,
         opcode |-> -1]
    ELSE
        LET opcode == mmu_read(s.mmu, s.cpu.PC)
            s1 == [s EXCEPT !.cpu = Adv(s.cpu, 1)]
        IN  IF opcode = 203 THEN
                LET cb_opcode == mmu_read(s1.mmu, s1.cpu.PC)
                    r == execute_cb_opcode([s1 EXCEPT !.cpu = Adv(s1.cpu, 1)],
                                           cb_opcode)
                IN  [cpu |-> r.cpu, mmu |-> r.mmu, ret |-> BoolToInt(r.ret),
                     opcode |-> 203]
            ELSE
                LET r == execute_opcode(s1, opcode)
                IN  [cpu |-> ime_commit(r.cpu), mmu |-> r.mmu,
                     ret |-> BoolToInt(r.ret), opcode |-> opcode]

cpu_step(s) ==
    IF s.cpu.PC = 65535 THEN
        [cpu |-> [s.cpu EXCEPT !.halted = TRUE], mmu |-> s.mmu, ret |-> 4,
         opcode |-> -1]
    ELSE IF s.cpu.halted THEN
        [cpu |-> s.cpu, mmu |-> s.mmu, ret |-> 4, opcode |-> -1]
    ELSE
        LET opcode == mmu_read(s.mmu, s.cpu.PC)
            s1 == [s EXCEPT !.cpu = Adv(s.cpu, 1)]
        IN  IF opcode = 203 THEN
                LET cb_opcode == mmu_read(s1.mmu, s1.cpu.PC)
                    r == execute_cb_opcode([s1 EXCEPT !.cpu = Adv(s1.cpu, 1)],
                                           cb_opcode)
                IN  [cpu |-> r.cpu, mmu |-> r.mmu, ret |-> BoolToInt(r.ret),
                     opcode |-> 203]
            ELSE
                LET r == execute_opcode(s1, opcode)
                IN  [cpu |-> ime_commit(r.cpu), mmu |-> r.mmu,
                     ret |-> BoolToInt(r.ret), opcode |-> opcode]

---------------------------------------------------------------------------
(* timer.c.                                                                *)

TIMER_INTERRUPT_BIT == 2

\* the bit of the internal counter selected by TAC bits 1..0
bit_to_check(tac) ==
    CASE tac % 4 = 0 -> 9 [] tac % 4 = 1 -> 3 [] tac % 4 = 2 -> 5 [] OTHER -> 7

\* timer_step with mmu.interrupt_flag = (1 << 2) for |= (1 << 2)
timer_step_assigns_flag(m, cycles) ==
    LET old_timer == m.internal_timer
        m1 == [m EXCEPT !.internal_timer = U16(@ + cycles)]
        timer_enabled == Bit(m.tac, 2) = 1
        was_set == Bit(old_timer, bit_to_check(m.tac)) = 1
        is_set == Bit(m1.internal_timer, bit_to_check(m.tac)) = 1
    IN  IF ~timer_enabled THEN m1
        ELSE IF was_set /\ ~is_set THEN
            IF U8(m1.tima + 1) = 0
            THEN [m1 EXCEPT !.tima = m1.tma, !.interrupt_flag = 4]
            ELSE [m1 EXCEPT !.tima = U8(@ + 1)]
        ELSE m1

timer_step(m, cycles) ==
    LET old_timer == m.internal_timer
        m1 == [m EXCEPT !.internal_timer = U16(@ + cycles)]
        timer_enabled == Bit(m.tac, 2) = 1
        was_set == Bit(old_timer, bit_to_check(m.tac)) = 1
        is_set == Bit(m1.internal_timer, bit_to_check(m.tac)) = 1
    IN  IF ~timer_enabled THEN m1
        ELSE IF was_set /\ ~is_set THEN
            IF U8(m1.tima + 1) = 0
            THEN [m1 EXCEPT !.tima = m1.tma,
                            !.interrupt_flag = SetBit(@, TIMER_INTERRUPT_BIT)]
            ELSE [m1 EXCEPT !.tima = U8(@ + 1)]
        ELSE m1

---------------------------------------------------------------------------
(* interrupts.c.                                                           *)

\* the vector of interrupt bit 0..4
Vector(interrupt_bit) == 64 + 8 * interrupt_bit

\* service_interrupts leaving ime as it was
service_interrupts_ime_kept(s, interrupt_bit) ==
    LET if_reg == mmu_get_if_register(s.mmu)
        m1 == mmu_write(s.mmu, 65295, ClearBit(if_reg, interrupt_bit))
        p == push16([cpu |-> s.cpu, mmu |-> m1], s.cpu.PC)
    IN  [cpu |-> [p.cpu EXCEPT !.PC = Vector(interrupt_bit)], mmu |-> p.mmu]

service_interrupts(s, interrupt_bit) ==
    LET c1 == [s.cpu EXCEPT !.ime = FALSE]
        if_reg == mmu_get_if_register(s.mmu)
        m1 == mmu_write(s.mmu, 65295, ClearBit(if_reg, interrupt_bit))
        p == push16([cpu |-> c1, mmu |-> m1], c1.PC)
    IN  [cpu |-> [p.cpu EXCEPT !.PC = Vector(interrupt_bit)], mmu |-> p.mmu]

\* the loop run from bit 4 down to bit 0
LastBit(active) == CHOOSE i \in 0 .. 4 :
    Bit(active, i) = 1 /\ \A j \in 0 .. 4 : j > i => Bit(active, j) = 0

\* the lowest set bit of a nonzero 5-bit mask: the loop from bit 0 to bit 4
FirstBit(active) == CHOOSE i \in 0 .. 4 :
    Bit(active, i) = 1 /\ \A j \in 0 .. 4 : j < i => Bit(active, j) = 0

handle_interrupts(s) ==
    LET requested_interrupts == mmu_get_if_register(s.mmu)
        enabled_interrupts == mmu_get_ie_register(s.mmu)
        active_interrupts ==
            AND(AND(requested_interrupts, enabled_interrupts), 31)
        c1 == IF s.cpu.halted /\ AND(requested_interrupts, 31) # 0
              THEN [s.cpu EXCEPT !.halted = FALSE] ELSE s.cpu
        s1 == [cpu |-> c1, mmu |-> s.mmu]
    IN  IF ~c1.ime THEN s1
        ELSE IF active_interrupts # 0
        THEN service_interrupts(s1, FirstBit(active_interrupts))
        ELSE s1

---------------------------------------------------------------------------
(* mbc.c: the control registers and the bank they select.                  *)

MbcTypes == {"ROM_ONLY", "MBC1", "MBC2", "MBC3", "MBC5"}

mbc_init(type) ==
    [mbc_type |-> type, ram_enable |-> FALSE,
     mbc1_rom_lo5 |-> 1, mbc1_rom_hi2_or_ram |-> 0, mbc1_mode |-> 0,
     mbc2_rom_bank |-> 1,
     mbc3_rom_bank |-> 1, mbc3_ram_bank_or_rtc |-> 0, mbc3_latch |-> 0,
     mbc5_rom_bank |-> 1, mbc5_ram_bank |-> 0]

\* mbc1_active_upper_rom_bank returning hi2 << 5 alone
mbc1_upper_bank_hi2_only(b) == (b.mbc1_rom_hi2_or_ram % 4) * 32

\* mbc1_active_upper_rom_bank returning lo5 alone
mbc1_upper_bank_lo5_only(b) ==
    IF b.mbc1_rom_lo5 % 32 = 0 THEN 1 ELSE b.mbc1_rom_lo5 % 32

mbc1_active_upper_rom_bank(b) ==
    LET lo5 == IF b.mbc1_rom_lo5 % 32 = 0 THEN 1 ELSE b.mbc1_rom_lo5 % 32
        hi2 == b.mbc1_rom_hi2_or_ram % 4
    IN  hi2 * 32 + lo5

mbc1_active_lower_rom_bank(b) == (b.mbc1_rom_hi2_or_ram % 4) * 32

\* the ROM bank mbc_read uses for an address in 0x4000..0x7FFF
upper_rom_bank(b) ==
    CASE b.mbc_type = "MBC1" -> mbc1_active_upper_rom_bank(b)
      [] b.mbc_type = "MBC2" ->
           IF b.mbc2_rom_bank % 16 = 0 THEN 1 ELSE b.mbc2_rom_bank % 16
      [] b.mbc_type = "MBC3" ->
           IF b.mbc3_rom_bank % 128 = 0 THEN 1 ELSE b.mbc3_rom_bank % 128
      [] b.mbc_type = "MBC5" -> b.mbc5_rom_bank
      [] OTHER -> 1

RamEnableValue(value) == (value % 16) = 10

\* mbc_write on MBC5 with a write to 0x3000..0x3FFF replacing the whole bank
\* register instead of its bit 8
mbc_write_mbc5_high_replaces(b, addr, value) ==
    IF b.mbc_type # "MBC5" THEN b
    ELSE IF addr < 8192 THEN [b EXCEPT !.ram_enable = RamEnableValue(value)]
    ELSE IF addr < 12288 THEN
        [b EXCEPT !.mbc5_rom_bank = (@ - (@ % 256)) + value]
    ELSE IF addr < 16384 THEN [b EXCEPT !.mbc5_rom_bank = (value % 2) * 256]
    ELSE IF addr < 24576 THEN [b EXCEPT !.mbc5_ram_bank = value % 16]
    ELSE b

\* mbc_write on MBC1 with a write of the mode also clearing hi2
mbc_write_mode_clears_hi2(b, addr, value) ==
    IF b.mbc_type # "MBC1" THEN b
    ELSE IF addr < 8192 THEN [b EXCEPT !.ram_enable = RamEnableValue(value)]
    ELSE IF addr < 16384 THEN
        [b EXCEPT !.mbc1_rom_lo5 = IF value % 32 = 0 THEN 1 ELSE value % 32]
    ELSE IF addr < 24576 THEN [b EXCEPT !.mbc1_rom_hi2_or_ram = value % 4]
    ELSE [b EXCEPT !.mbc1_mode = value % 2, !.mbc1_rom_hi2_or_ram = 0]

mbc_write(b, addr, value) ==
    CASE b.mbc_type = "MBC1" ->
           IF addr < 8192 THEN [b EXCEPT !.ram_enable = RamEnableValue(value)]
           ELSE IF addr < 16384 THEN
               [b EXCEPT !.mbc1_rom_lo5 =
                   IF value % 32 = 0 THEN 1 ELSE value % 32]
           ELSE IF addr < 24576 THEN
               [b EXCEPT !.mbc1_rom_hi2_or_ram = value % 4]
           ELSE [b EXCEPT !.mbc1_mode = value % 2]
      [] b.mbc_type = "MBC2" ->
           IF addr < 8192 THEN
               IF Bit(addr, 8) = 0
               THEN [b EXCEPT !.ram_enable = RamEnableValue(value)] ELSE b
           ELSE IF addr < 16384 THEN
               IF Bit(addr, 8) # 0
               THEN [b EXCEPT !.mbc2_rom_bank =
                        IF value % 16 = 0 THEN 1 ELSE value % 16]
               ELSE b
           ELSE b
      [] b.mbc_type = "MBC3" ->
           IF addr < 8192 THEN [b EXCEPT !.ram_enable = RamEnableValue(value)]
           ELSE IF addr < 16384 THEN
               [b EXCEPT !.mbc3_rom_bank =
                   IF value % 128 = 0 THEN 1 ELSE value % 128]
           ELSE IF addr < 24576 THEN [b EXCEPT !.mbc3_ram_bank_or_rtc = value]
           ELSE [b EXCEPT !.mbc3_latch = value]
      [] b.mbc_type = "MBC5" ->
           IF addr < 8192 THEN [b EXCEPT !.ram_enable = RamEnableValue(value)]
           ELSE IF addr < 12288 THEN
               [b EXCEPT !.mbc5_rom_bank = (@ - (@ % 256)) + value]
           ELSE IF addr < 16384 THEN
               [b EXCEPT !.mbc5_rom_bank = (@ % 256) + (value % 2) * 256]
           ELSE IF addr < 24576 THEN [b EXCEPT !.mbc5_ram_bank = value % 16]
           ELSE b
      [] OTHER -> b

\* the cartridge buffers mbc.c indexes: rom[] of g_rom_size bytes and eram[]
\* of g_eram_size bytes, eram zeroed
mbc_buffers(b, rom, rom_size, eram_size) ==
    [rom |-> rom, g_rom_size |-> rom_size, eram |-> EmptyArr,
     g_eram_size |-> eram_size] @@ b

in_rom_bounds(b, off) == b.g_rom_size > 0 /\ off < b.g_rom_size

in_eram_bounds(b, off) == b.g_eram_size > 0 /\ off < b.g_eram_size

\* the offset into rom[] that mbc_read computes for addr in 0x0000..0x7FFF
rom_offset(b, addr) ==
    CASE b.mbc_type = "MBC1" ->
           IF addr < 16384 THEN
               IF b.mbc1_mode = 0 THEN addr
               ELSE mbc1_active_lower_rom_bank(b) * 16384 + addr
           ELSE mbc1_active_upper_rom_bank(b) * 16384 + (addr - 16384)
      [] b.mbc_type = "MBC2" ->
           LET sel == IF addr < 16384 THEN 0 ELSE b.mbc2_rom_bank % 16
               bank == IF sel = 0 THEN 1 ELSE sel
           IN  bank * 16384 + (addr % 16384)
      [] b.mbc_type = "MBC3" ->
           IF addr < 16384 THEN addr
           ELSE LET sel == b.mbc3_rom_bank % 128
                    bank == IF sel = 0 THEN 1 ELSE sel
                IN  bank * 16384 + (addr - 16384)
      [] b.mbc_type = "MBC5" ->
           IF addr < 16384 THEN addr
           ELSE b.mbc5_rom_bank * 16384 + (addr - 16384)
      [] OTHER -> addr

mbc_read(b, addr) ==
    LET off == rom_offset(b, addr)
    IN  IF in_rom_bounds(b, off) THEN Get(b.rom, off) ELSE 255

\* ram_bank with an RTC selector of MBC3 mapped onto RAM bank 0
ram_bank_rtc_maps_bank0(b) ==
    CASE b.mbc_type = "MBC1" ->
           IF b.mbc1_mode = 0 THEN 0 ELSE b.mbc1_rom_hi2_or_ram % 4
      [] b.mbc_type = "MBC3" ->
           IF b.mbc3_ram_bank_or_rtc <= 3 THEN b.mbc3_ram_bank_or_rtc ELSE 0
      [] b.mbc_type = "MBC5" -> b.mbc5_ram_bank % 16
      [] OTHER -> -1

\* the external RAM bank mbc_read_ram / mbc_write_ram use, -1 when the
\* controller maps no eram[] byte (no RAM, MBC2, an RTC register of MBC3)
ram_bank(b) ==
    CASE b.mbc_type = "MBC1" ->
           IF b.mbc1_mode = 0 THEN 0 ELSE b.mbc1_rom_hi2_or_ram % 4
      [] b.mbc_type = "MBC3" ->
           IF b.mbc3_ram_bank_or_rtc <= 3 THEN b.mbc3_ram_bank_or_rtc ELSE -1
      [] b.mbc_type = "MBC5" -> b.mbc5_ram_bank % 16
      [] OTHER -> -1

\* eram_offset with the bank left out
eram_offset_bank_ignored(b, addr) == addr - 40960

\* the offset into eram[] for addr in 0xA000..0xBFFF
eram_offset(b, addr) == ram_bank(b) * 8192 + (addr - 40960)

mbc_read_ram(b, addr) ==
    IF ~b.ram_enable THEN 255
    ELSE IF ram_bank(b) < 0 THEN 255
    ELSE IF in_eram_bounds(b, eram_offset(b, addr))
         THEN Get(b.eram, eram_offset(b, addr)) ELSE 255

mbc_write_ram(b, addr, value) ==
    IF ~b.ram_enable THEN b
    ELSE IF ram_bank(b) < 0 THEN b
    ELSE IF in_eram_bounds(b, eram_offset(b, addr))
         THEN [b EXCEPT !.eram = Put(@, eram_offset(b, addr), value)] ELSE b

---------------------------------------------------------------------------
(* The state machine.  The entry points of the core are called the way    *)
(* tests/cpu_test.c and main.c call them: on a machine whose registers and *)
(* memory were set up beforehand.                                          *)

\* number of calls followed from an initial state
MaxSteps == 2

S == [cpu |-> cpu, mmu |-> mmu]

\* hist after a call of fn(a1, a2) that returned ret
Record(fn, a1, a2, ret) ==
    hist' = <<[fn |-> fn, a1 |-> a1, a2 |-> a2, ret |-> ret,
               cpu |-> cpu, mmu |-> mmu, mbc |-> mbc]>>
            \o (IF hist = <<>> THEN <<>> ELSE <<hist[1]>>)

\* the machine as set up by a test: registers c, memory m, controller b
Setup(c, m, b) ==
    /\ cpu = c
    /\ mmu = m
    /\ mbc = b
    /\ running = TRUE
    /\ hist = <<>>
    /\ nsteps = 0

\* a ROM holding the bytes of prog from 0x0100 on, as run_opcode writes them
RomAt0100(prog) == [o \in 256 .. 255 + Len(prog) |-> prog[o - 255]]

\* one call of cpu_step()
Step ==
    /\ running
    /\ nsteps < MaxSteps
    /\ LET r == cpu_step(S)
       IN  /\ cpu' = r.cpu
           /\ mmu' = r.mmu
           /\ Record("cpu_step", r.opcode, mmu_read(mmu, U16(cpu.PC + 1)),
                     r.ret)
    /\ nsteps' = nsteps + 1
    /\ UNCHANGED <<mbc, running>>

\* register files the instructions are run on; F has its low nibble clear,
\* as it has after cpu_reset and after every instruction
RegFiles ==
    { cpu_reset,
      [cpu_reset EXCEPT !.A = 255, !.F = 16, !.B = 1, !.C = 255, !.D = 15,
                        !.E = 128, !.H = 192, !.L = 0, !.SP = 53250],
      [cpu_reset EXCEPT !.A = 0, !.F = 0, !.B = 255, !.C = 0, !.D = 128,
                        !.E = 1, !.H = 255, !.L = 128, !.SP = 49152],
      [cpu_reset EXCEPT !.A = 154, !.F = 240, !.B = 154, !.C = 102, !.D = 240,
                        !.E = 15, !.H = 15, !.L = 255, !.SP = 0],
      [cpu_reset EXCEPT !.A = 15, !.F = 96, !.B = 1, !.C = 15, !.D = 208,
                        !.E = 1, !.H = 208, !.L = 1, !.SP = 65296],
      [cpu_reset EXCEPT !.A = 128, !.F = 144, !.B = 128, !.C = 128, !.D = 255,
                        !.E = 255, !.H = 128, !.L = 0, !.SP = 16384],
      [cpu_reset EXCEPT !.A = 60, !.F = 128, !.B = 18, !.C = 52, !.D = 86,
                        !.E = 120, !.H = 254, !.L = 160, !.SP = 65185] }

\* the two bytes following the opcode
ImmVals == {<<0, 0>>, <<5, 192>>, <<254, 255>>, <<128, 1>>}

\* work RAM left behind by earlier code: bytes at 0xD000..0xD003
StackBytes == [o \in 4096 .. 4099 |-> CASE o = 4096 -> 95 [] o = 4097 -> 167
                                           [] o = 4098 -> 255 [] OTHER -> 18]

\* CALL nn with a RET at nn: nn = 0x0104 and nn = 0x0103 (the return address)
CallRetPrograms == { <<205, 4, 1, 0, 201>>, <<205, 3, 1, 201>> }

\* every opcode, base and CB-prefixed, at 0x0100, PUSH rr followed by POP rr,
\* and CALL nn followed by RET
Programs ==
    { <<op, imm[1], imm[2]>> : op \in (0 .. 255) \ {203}, imm \in ImmVals }
    \cup { <<203, cb, 0>> : cb \in 0 .. 255 }
    \cup { <<197, 193, 0>>, <<213, 209, 0>>, <<229, 225, 0>>,
           <<245, 241, 0>> }
    \cup CallRetPrograms

\* DI followed by NOP, by a CB-prefixed opcode (RLC A) and by EI
DiPrograms == { <<243, 0, 0>>, <<243, 203, 7>>, <<243, 251, 0>> }

\* the programs on every register file, and DI run with interrupts enabled
Init ==
    \/ \E c \in RegFiles, prog \in Programs :
        Setup(c, [mmu_init(RomAt0100(prog)) EXCEPT !.wram = StackBytes],
              mbc_init("ROM_ONLY"))
    \/ \E c \in RegFiles, prog \in DiPrograms :
        Setup([c EXCEPT !.ime = TRUE],
              [mmu_init(RomAt0100(prog)) EXCEPT !.wram = StackBytes],
              mbc_init("ROM_ONLY"))

Next == Step

Spec == Init /\ [][Next]_vars

---------------------------------------------------------------------------
(* interrupts.c called on its own.                                         *)

HandleInterrupts ==
    /\ running
    /\ nsteps < MaxSteps
    /\ LET r == handle_interrupts(S)
       IN  /\ cpu' = r.cpu
           /\ mmu' = r.mmu
    /\ Record("handle_interrupts", 0, 0, 0)
    /\ nsteps' = nsteps + 1
    /\ UNCHANGED <<mbc, running>>

\* stack pointers: in HRAM, work RAM, at the ends of the address space, next
\* to the IF register, in ROM, in VRAM above ROM, in the unusable region
IntSPs == {65534, 53250, 0, 1, 65296, 65297, 16384, 32769, 65185}

IntFlags == {0, 1, 2, 4, 6, 16, 20, 31, 224, 255}

IntEnables == {0, 1, 4, 6, 31, 255}

InitInterrupts ==
    \E ime \in BOOLEAN, halted \in BOOLEAN, pc \in {336, 49407},
       sp \in IntSPs, intf \in IntFlags, inte \in IntEnables :
        Setup([cpu_reset EXCEPT !.ime = ime, !.halted = halted, !.PC = pc,
                                !.SP = sp],
              [mmu_init(EmptyArr) EXCEPT !.interrupt_flag = intf,
                                         !.interrupt_enable = inte],
              mbc_init("ROM_ONLY"))

NextInterrupts == HandleInterrupts

SpecInterrupts == InitInterrupts /\ [][NextInterrupts]_vars

---------------------------------------------------------------------------
(* timer.c called on its own.                                              *)

\* the cycle counts of the instruction set, and the 1 cpu_step returns
Cycles == {1, 4, 8, 12, 16, 20, 24}

TimerStep ==
    /\ running
    /\ nsteps < MaxSteps
    /\ \E cycles \in Cycles :
        /\ mmu' = timer_step(mmu, cycles)
        /\ Record("timer_step", cycles, 0, 0)
    /\ nsteps' = nsteps + 1
    /\ UNCHANGED <<cpu, mbc, running>>

InitTimer ==
    \E tac \in {0, 1, 4, 5, 6, 7}, tima \in {0, 254, 255}, tma \in {0, 171},
       it \in {0, 8, 12, 504, 1016, 65528}, intf \in {0, 4, 27} :
        Setup(cpu_reset,
              [mmu_init(EmptyArr) EXCEPT !.tac = tac, !.tima = tima,
                                         !.tma = tma, !.internal_timer = it,
                                         !.interrupt_flag = intf],
              mbc_init("ROM_ONLY"))

NextTimer == TimerStep

SpecTimer == InitTimer /\ [][NextTimer]_vars

---------------------------------------------------------------------------
(* main.c: the run loop.                                                   *)

\* number of iterations of the run loop followed
MaxTicks == 6

\* one iteration of while (true): cpu_step, leave the loop when it returned
\* 0, else timer_step with the value returned
Tick ==
    /\ running
    /\ nsteps < MaxTicks
    /\ LET r == cpu_step(S)
           e == [fn |-> "cpu_step", a1 |-> r.opcode,
                 a2 |-> mmu_read(mmu, U16(cpu.PC + 1)), ret |-> r.ret,
                 cpu |-> cpu, mmu |-> mmu, mbc |-> mbc]
       IN  /\ cpu' = r.cpu
           /\ IF r.ret = 0
              THEN /\ running' = FALSE
                   /\ mmu' = r.mmu
                   /\ hist' = <<e>>
              ELSE /\ running' = TRUE
                   /\ mmu' = timer_step(r.mmu, r.ret)
                   /\ hist' = <<[fn |-> "timer_step", a1 |-> r.ret, a2 |-> 0,
                                 ret |-> 0, cpu |-> r.cpu, mmu |-> r.mmu,
                                 mbc |-> mbc], e>>
    /\ nsteps' = nsteps + 1
    /\ UNCHANGED mbc

\* EI; LD A,n; LDH (0x0F),A (IF); LDH (0xFF),A (IE); LDH (0x07),A (TAC);
\* NOP; HALT
MainInstrs ==
    {<<251>>, <<62, 4>>, <<62, 5>>, <<224, 15>>, <<224, 255>>, <<224, 7>>,
     <<0>>, <<118>>}

\* the ROM images run: four instructions at the entry point 0x0100
MainPrograms ==
    { i1 \o i2 \o i3 \o i4 : i1 \in MainInstrs, i2 \in MainInstrs,
                             i3 \in MainInstrs, i4 \in MainInstrs }

\* mmu_init(); cpu_reset(); mmu_load_rom(argv[1])
InitMain ==
    \E prog \in MainPrograms :
        Setup(cpu_reset, mmu_init(RomAt0100(prog)), mbc_init("ROM_ONLY"))

NextMain == Tick

SpecMain == InitMain /\ [][NextMain]_vars

---------------------------------------------------------------------------
(* mbc.c: control-register writes after mbc_init.  The registers take      *)
(* finitely many values, so any number of writes is followed; hist keeps   *)
(* the last write only.                                                    *)

\* an address in every control region, with bit 8 clear and set where MBC2
\* looks at it
CtlAddrs == {0, 256, 8192, 8448, 12288, 16384, 24576, 32767}

CtlVals == {0, 1, 10, 32, 255}

MbcWrite ==
    /\ \E addr \in CtlAddrs, value \in CtlVals :
        /\ mbc' = mbc_write(mbc, addr, value)
        /\ hist' = <<[fn |-> "mbc_write", a1 |-> addr, a2 |-> value,
                      ret |-> 0, cpu |-> cpu, mmu |-> mmu, mbc |-> mbc]>>
    /\ UNCHANGED <<cpu, mmu, running, nsteps>>

InitMbc ==
    \E type \in MbcTypes :
        Setup(cpu_reset, mmu_init(EmptyArr), mbc_init(type))

NextMbc == MbcWrite

SpecMbc == InitMbc /\ [][NextMbc]_vars

---------------------------------------------------------------------------
(* mmu.c: the bus written to after a ROM was loaded.  mmu_read is a        *)
(* function of the state, so the bytes the bus reads are stated on the     *)
(* state a write returns in.                                               *)

\* number of bus writes followed from an initial state
MaxBusOps == 3

\* mmu_load_rom: the buffer of size bytes read from the file.  m.rom[off]
\* for off >= size stands for whatever lies behind the malloc'ed buffer.
mmu_load_rom(m, rom, size) == [rom_size |-> size] @@ [m EXCEPT !.rom = rom]

\* a ROM file of nbanks 16 KiB banks, each bank marked with its number at
\* its offsets 0, 2 and 0x3FFF (zero elsewhere)
RomImage(nbanks) ==
    [off \in {bk * 16384 + o : bk \in 0 .. nbanks - 1, o \in {0, 2, 16383}}
        |-> (off \div 16384) + 1 + (IF off % 16384 = 0 THEN 0 ELSE 64)]

\* bytes an out-of-bounds read of the heap may find
UBBytes == {0, 90, 255}

\* RomImage(nbanks) followed by the byte g at the first and the last offset
\* of the bank behind it
RomThenHeap(nbanks, g) ==
    [off \in (DOMAIN RomImage(nbanks))
             \cup {nbanks * 16384, nbanks * 16384 + 16383}
        |-> IF off < nbanks * 16384 THEN RomImage(nbanks)[off] ELSE g]

\* cartridges: kind, number of ROM banks, external RAM size
Carts ==
    { <<"ROM_ONLY", 2, 0>>, <<"ROM_ONLY", 1, 0>>, <<"MBC1", 64, 32768>>,
      <<"MBC2", 4, 0>>, <<"MBC3", 8, 8192>>, <<"MBC5", 8, 32768>> }

\* the writes made: control registers, ROM, external RAM, work RAM and its
\* echo, OAM's last byte, the unusable region, the first I/O register
BusWrites ==
    { <<0, 10>>, <<0, 0>>, <<2, 255>>, <<8448, 31>>, <<16384, 1>>,
      <<40960, 205>>, <<49157, 66>>, <<53247, 18>>, <<56831, 102>>,
      <<57350, 136>>, <<65023, 85>>, <<65183, 51>>, <<65184, 85>>,
      <<65279, 119>>, <<65280, 68>> }

BusWrite ==
    /\ nsteps < MaxBusOps
    /\ \E w \in BusWrites :
        /\ mmu' = mmu_write(mmu, w[1], w[2])
        /\ Record("mmu_write", w[1], w[2], 0)
    /\ nsteps' = nsteps + 1
    /\ UNCHANGED <<cpu, mbc, running>>

InitBus ==
    \E cart \in Carts, g \in UBBytes :
        Setup(cpu_reset,
              mmu_load_rom(mmu_init(EmptyArr),
                           IF cart[2] < 2 THEN RomThenHeap(cart[2], g)
                           ELSE RomImage(cart[2]),
                           cart[2] * 16384),
              mbc_buffers(mbc_init(cart[1]), RomImage(cart[2]),
                          cart[2] * 16384, cart[3]))

NextBus == BusWrite

SpecBus == InitBus /\ [][NextBus]_vars

---------------------------------------------------------------------------
(* mbc.c: the four entry points of the bank controller on a loaded         *)
(* cartridge.  mbc_read and mbc_read_ram are functions of the state.       *)

\* number of controller writes followed from an initial state
MaxCartOps == 3

\* hist after a call of fn(a1, a2): every call made so far, newest first
Trace(fn, a1, a2, ret) ==
    hist' = <<[fn |-> fn, a1 |-> a1, a2 |-> a2, ret |-> ret,
               cpu |-> cpu, mmu |-> mmu, mbc |-> mbc]>> \o hist

CartCtlAddrs == {0, 8448, 16384, 24576}

CartCtlVals == {0, 1, 10, 31}

CartRamAddrs == {40960, 49151}

\* one call of mbc_write(addr, value)
CartWrite ==
    /\ nsteps < MaxCartOps
    /\ \E addr \in CartCtlAddrs, value \in CartCtlVals :
        /\ mbc' = mbc_write(mbc, addr, value)
        /\ Trace("mbc_write", addr, value, 0)
    /\ nsteps' = nsteps + 1
    /\ UNCHANGED <<cpu, mmu, running>>

\* one call of mbc_write_ram(addr, value)
CartWriteRam ==
    /\ nsteps < MaxCartOps
    /\ \E addr \in CartRamAddrs :
        /\ mbc' = mbc_write_ram(mbc, addr, 205)
        /\ Trace("mbc_write_ram", addr, 205, 0)
    /\ nsteps' = nsteps + 1
    /\ UNCHANGED <<cpu, mmu, running>>

InitCart ==
    \E cart \in Carts :
        Setup(cpu_reset, mmu_init(EmptyArr),
              mbc_buffers(mbc_init(cart[1]), RomImage(cart[2]),
                          cart[2] * 16384, cart[3]))

NextCart == CartWrite \/ CartWriteRam

SpecCart == InitCart /\ [][NextCart]_vars

---------------------------------------------------------------------------
(* The arithmetic instructions run one at a time on a machine set up with  *)
(* the operands, as run_opcode does in tests/cpu_opcode_test.c.            *)

\* number of cpu_step calls followed after the set-up
MaxAluSteps == 1

\* one call of cpu_step()
AluStep ==
    /\ running
    /\ nsteps < MaxAluSteps
    /\ LET r == cpu_step(S)
       IN  /\ cpu' = r.cpu
           /\ mmu' = r.mmu
           /\ Record("cpu_step", r.opcode, mmu_read(mmu, U16(cpu.PC + 1)),
                     r.ret)
    /\ nsteps' = nsteps + 1
    /\ UNCHANGED <<mbc, running>>

\* operand bytes: the ends of the range, the nibble and sign boundaries, and
\* the decimal boundaries 0x09, 0x0A, 0x19, 0x3A, 0x99, 0x9A
AluBytes == {0, 1, 9, 10, 15, 16, 25, 58, 127, 128, 153, 154, 240, 255}

\* operand words: the ends of the range and the carries out of bit 11 and 15
AluWords == {0, 1, 4095, 4096, 32767, 32768, 61441, 65535}

\* every value of F with its low nibble clear
AluFlags == {16 * n : n \in 0 .. 15}

\* F with no flag, with C only, with all but C, with all
AluCarryFlags == {0, 16, 224, 240}

\* ADD, ADC, SUB, SBC, CP with a register or (HL) operand, and with an
\* immediate operand
OpArith8R == (128 .. 159) \cup (184 .. 191)

OpArith8N == {198, 206, 214, 222, 254}

\* RLCA, RLA, RRCA, RRA
OpRotA == {7, 23, 15, 31}

\* the machine with A = a, F = f, HL = 0xC000 and then the operand x stored
\* in operand i (0..7 = B, C, D, E, H, L, (HL), A), running prog at 0x0100
AluSetup(a, f, i, x, prog) ==
    LET s0 == [cpu |-> [cpu_reset EXCEPT !.A = a, !.F = f, !.H = 192, !.L = 0],
               mmu |-> mmu_init(RomAt0100(prog))]
        s1 == SetR(s0, i, x)
    IN  Setup(s1.cpu, s1.mmu, mbc_init("ROM_ONLY"))

\* the machine with HL = hl, F = f and the register pair of ADD HL,rr
\* (0x09 BC, 0x19 DE, 0x29 HL, 0x39 SP) holding rr
AluSetup16(hl, f, opcode, rr) ==
    LET c0 == SET_REG_HL([cpu_reset EXCEPT !.F = f], hl)
        c1 == CASE opcode = 9 -> SET_REG_BC(c0, rr)
                [] opcode = 25 -> SET_REG_DE(c0, rr)
                [] opcode = 41 -> SET_REG_HL(c0, rr)
                [] OTHER -> [c0 EXCEPT !.SP = rr]
    IN  Setup(c1, mmu_init(RomAt0100(<<opcode>>)), mbc_init("ROM_ONLY"))

InitAlu ==
    \/ \E a \in AluBytes, x \in AluBytes, f \in AluCarryFlags,
          op \in OpArith8R : AluSetup(a, f, op % 8, x, <<op>>)
    \/ \E a \in AluBytes, x \in AluBytes, f \in AluFlags, op \in OpArith8N :
          AluSetup(a, f, 7, a, <<op, x>>)
    \/ \E hl \in AluWords, rr \in AluWords, f \in AluFlags,
          op \in {9, 25, 41, 57} : AluSetup16(hl, f, op, rr)
    \/ \E a \in 0 .. 255, f \in AluFlags : AluSetup(a, f, 7, a, <<39>>)
    \/ \E x \in AluBytes, f \in AluCarryFlags, cb \in 0 .. 63 :
          AluSetup(1, f, cb % 8, x, <<203, cb>>)
    \/ \E a \in AluBytes, f \in AluCarryFlags, op \in OpRotA :
          AluSetup(a, f, 7, a, <<op>>)

NextAlu == AluStep

SpecAlu == InitAlu /\ [][NextAlu]_vars

---------------------------------------------------------------------------
(* Loading a ROM file: mmu_load_rom and mmu_free of mmu.c, load_rom of     *)
(* rom.c.  A file is [exists, size, readable, code]: whether fopen finds   *)
(* it, its length, whether fread delivers all of it, and its header byte   *)
(* 0x147.  mmu.rom is the buffer's contents and mmu.rom_ptr the state of   *)
(* the pointer: "null", "live" (malloc'ed) or "freed" (free'd, not reset). *)

\* number of loader calls followed from mmu_init
MaxLoads == 3

MAX_ROM_SIZE == 2097152

\* the bytes of a file the model looks at: offset 0 and the header byte
FileImage(f) ==
    [o \in {o \in {0, 327} : o < f.size} |-> IF o = 0 THEN 195 ELSE f.code]

\* free(mmu.rom); the pointer keeps its value
free_rom(m) == [m EXCEPT !.rom_ptr = IF @ = "null" THEN "null" ELSE "freed"]

\* free(mmu.rom); mmu.rom = NULL
free_rom_and_reset(m) == [m EXCEPT !.rom_ptr = "null", !.rom = EmptyArr]

\* mmu_load_rom(filepath) on the file f, malloc succeeding or not: the new
\* mmu and the int returned
mmu_load_rom_from(m, f, alloc_ok) ==
    LET m1 == IF m.rom_ptr # "null" THEN free_rom(m) ELSE m
    IN  IF ~f.exists THEN [mmu |-> m1, ret |-> -1]
        ELSE IF f.size > MAX_ROM_SIZE THEN [mmu |-> m1, ret |-> -1]
        ELSE IF ~alloc_ok THEN
            [mmu |-> [m1 EXCEPT !.rom_ptr = "null", !.rom = EmptyArr],
             ret |-> -1]
        ELSE IF ~f.readable THEN
            [mmu |-> free_rom_and_reset(m1), ret |-> -1]
        ELSE
            [mmu |-> [rom_ptr |-> "live"]
                     @@ mmu_load_rom(m1, FileImage(f), f.size),
             ret |-> 0]

\* mmu_free()
mmu_free(m) == IF m.rom_ptr # "null" THEN free_rom_and_reset(m) ELSE m

\* the cartridge type load_rom derives from the header byte 0x147
mbc_type_of(code) ==
    CASE code \in {0, 8, 9} -> "ROM_ONLY"
      [] code \in {1, 2, 3} -> "MBC1"
      [] code \in {15, 16, 17, 18, 19} -> "MBC3"
      [] code \in 25 .. 30 -> "MBC5"
      [] OTHER -> "UNKNOWN"

\* load_rom(path, &rom_data, &rom_size, &mbc_type) on the file f: the int
\* returned and, on success, the three values stored through the pointers
load_rom(f, alloc_ok) ==
    IF ~f.exists \/ f.size < 336 \/ ~alloc_ok \/ ~f.readable
    THEN [ret |-> 0, stored |-> FALSE]
    ELSE [ret |-> 1, stored |-> TRUE, rom_data |-> FileImage(f),
          rom_size |-> f.size, mbc_type |-> mbc_type_of(f.code)]

\* the files loaded: a missing one, an empty one, 8 bytes (tests/mmu_test.c),
\* 0x14F and 0x150 bytes, 32 KiB (MBC1 header), 32 KiB that cannot be read
\* to the end, and one above MAX_ROM_SIZE
Files ==
    { [exists |-> FALSE, size |-> 0, readable |-> FALSE, code |-> 0],
      [exists |-> TRUE, size |-> 0, readable |-> TRUE, code |-> 0],
      [exists |-> TRUE, size |-> 8, readable |-> TRUE, code |-> 0],
      [exists |-> TRUE, size |-> 335, readable |-> TRUE, code |-> 0],
      [exists |-> TRUE, size |-> 336, readable |-> TRUE, code |-> 5],
      [exists |-> TRUE, size |-> 32768, readable |-> TRUE, code |-> 1],
      [exists |-> TRUE, size |-> 32768, readable |-> FALSE, code |-> 1],
      [exists |-> TRUE, size |-> MAX_ROM_SIZE + 1, readable |-> TRUE,
       code |-> 25] }

\* a call of mmu_load_rom.  Entered with a pointer that was freed already,
\* free(mmu.rom) frees it a second time: the process is aborted by the
\* allocator or goes on
MmuLoadRom ==
    /\ running
    /\ nsteps < MaxLoads
    /\ \E f \in Files, alloc_ok \in BOOLEAN, aborted \in BOOLEAN :
        LET r == mmu_load_rom_from(mmu, f, alloc_ok)
        IN  /\ aborted => mmu.rom_ptr = "freed"
            /\ mmu' = IF aborted THEN mmu ELSE r.mmu
            /\ running' = ~aborted
            /\ Record("mmu_load_rom", f, alloc_ok,
                      IF aborted THEN -2 ELSE r.ret)
    /\ nsteps' = nsteps + 1
    /\ UNCHANGED <<cpu, mbc>>

\* a call of mmu_free, with the same double free
MmuFree ==
    /\ running
    /\ nsteps < MaxLoads
    /\ \E aborted \in BOOLEAN :
        /\ aborted => mmu.rom_ptr = "freed"
        /\ mmu' = IF aborted THEN mmu ELSE mmu_free(mmu)
        /\ running' = ~aborted
        /\ Record("mmu_free", 0, 0, IF aborted THEN -2 ELSE 0)
    /\ nsteps' = nsteps + 1
    /\ UNCHANGED <<cpu, mbc>>

\* a call of load_rom; its results go to the caller's variables
LoadRom ==
    /\ running
    /\ nsteps < MaxLoads
    /\ \E f \in Files, alloc_ok \in BOOLEAN :
        Record("load_rom", f, alloc_ok, load_rom(f, alloc_ok))
    /\ nsteps' = nsteps + 1
    /\ UNCHANGED <<cpu, mmu, mbc, running>>

\* mmu_init(): no ROM loaded
InitLoad ==
    Setup(cpu_reset,
          [rom_ptr |-> "null", rom_size |-> 0] @@ mmu_init(EmptyArr),
          mbc_init("ROM_ONLY"))

NextLoad == MmuLoadRom \/ MmuFree \/ LoadRom

SpecLoad == InitLoad /\ [][NextLoad]_vars

---------------------------------------------------------------------------
(* The timer registers on the bus: mmu_write to 0xFF04-0xFF07 and          *)
(* timer_step called in any order.                                         *)

\* number of calls followed from an initial state
MaxTimerBusOps == 2

\* DIV, TIMA, TMA, TAC
TimerRegs == {65284, 65285, 65286, 65287}

\* a bus write to a timer register
TimerBusWrite ==
    /\ running
    /\ nsteps < MaxTimerBusOps
    /\ \E addr \in TimerRegs, value \in {0, 5, 171} :
        /\ mmu' = mmu_write(mmu, addr, value)
        /\ Record("mmu_write", addr, value, 0)
    /\ nsteps' = nsteps + 1
    /\ UNCHANGED <<cpu, mbc, running>>

\* a call of timer_step
TimerBusStep ==
    /\ running
    /\ nsteps < MaxTimerBusOps
    /\ \E cycles \in {4, 8} :
        /\ mmu' = timer_step(mmu, cycles)
        /\ Record("timer_step", cycles, 0, 0)
    /\ nsteps' = nsteps + 1
    /\ UNCHANGED <<cpu, mbc, running>>

\* the timer stopped or running at 262144 Hz (watched bit 3), the counter
\* with bit 3 set (0x0008, 0xFFF8) or clear (0x0100)
InitTimerBus ==
    \E tac \in {0, 5}, tima \in {0, 255}, it \in {8, 256, 65528} :
        Setup(cpu_reset,
              [mmu_init(EmptyArr) EXCEPT !.tac = tac, !.tima = tima,
                                         !.tma = 171, !.internal_timer = it],
              mbc_init("ROM_ONLY"))

NextTimerBus == TimerBusWrite \/ TimerBusStep

SpecTimerBus == InitTimerBus /\ [][NextTimerBus]_vars

---------------------------------------------------------------------------
(* Properties.  Last is the latest call with the state it was made in;     *)
(* the current state is the state it returned in.                          *)

Last == hist[1]

Called(fn) == hist # <<>> /\ hist[1].fn = fn

\* pending = IF & IE & 0x1F
Pending(m) == AND(AND(m.interrupt_flag, m.interrupt_enable), 31)

\* the lowest-numbered set bit of a nonzero 5-bit mask
LowestSet(x) ==
    LET set == {i \in 0 .. 4 : Bit(x, i) = 1}
    IN  CHOOSE i \in set : \A j \in set : i <= j

\* a bus address at which a written byte is stored: not cartridge ROM
\* (0x0000-0x7FFF), not the unusable region (0xFEA0-0xFEFF)
Stored(addr) == addr >= 32768 /\ ~(addr >= 65184 /\ addr <= 65279)

\* an EI (0xFB) was fetched and executed with ime = FALSE
EIStep(e) == e.fn = "cpu_step" /\ e.a1 = 251 /\ ~e.cpu.ime

\* C1: after EI executes with ime = FALSE, ime is still FALSE when that step
\* completes, and ime is TRUE once the instruction following the EI has
\* completed: a delay of exactly one instruction.
C1_EIDelaysOneInstruction ==
    /\ (hist # <<>> /\ EIStep(hist[1])) => ~cpu.ime
    /\ (Len(hist) = 2 /\ EIStep(hist[2]) /\ hist[1].fn = "cpu_step"
        /\ hist[1].a1 # -1) => cpu.ime

\* C2 as stated: handle_interrupts dispatches iff ime is set and pending is
\* nonzero; it then services the lowest set bit i of pending: ime becomes
\* FALSE, exactly bit i of IF is cleared, the old PC is on the stack (high
\* byte at SP-1, low byte at SP-2, SP decreased by 2) and PC = 0x40 + 8*i.
\* Without a dispatch PC, SP, ime, IF and memory are unchanged.
C2_DispatchAsStated ==
    Called("handle_interrupts") =>
        LET p == Last
            i == LowestSet(Pending(p.mmu))
        IN  IF p.cpu.ime /\ Pending(p.mmu) # 0
            THEN /\ ~cpu.ime
                 /\ mmu.interrupt_flag = ClearBit(p.mmu.interrupt_flag, i)
                 /\ cpu.SP = U16(p.cpu.SP - 2)
                 /\ mmu_read(mmu, U16(p.cpu.SP - 1)) = HI(p.cpu.PC)
                 /\ mmu_read(mmu, U16(p.cpu.SP - 2)) = LO(p.cpu.PC)
                 /\ cpu.PC = 64 + 8 * i
            ELSE /\ cpu.PC = p.cpu.PC
                 /\ cpu.SP = p.cpu.SP
                 /\ cpu.ime = p.cpu.ime
                 /\ mmu = p.mmu

\* C2 amended: as C2, with the IF result stated when neither SP-1 nor SP-2 is
\* the IF register (0xFF0F), and each pushed byte stated to be in memory when
\* its address stores writes.
C2_Dispatch ==
    Called("handle_interrupts") =>
        LET p == Last
            i == LowestSet(Pending(p.mmu))
            sp1 == U16(p.cpu.SP - 1)
            sp2 == U16(p.cpu.SP - 2)
        IN  IF p.cpu.ime /\ Pending(p.mmu) # 0
            THEN /\ ~cpu.ime
                 /\ (sp1 # 65295 /\ sp2 # 65295) =>
                        mmu.interrupt_flag
                            = ClearBit(p.mmu.interrupt_flag, i)
                 /\ cpu.SP = sp2
                 /\ Stored(sp1) => mmu_read(mmu, sp1) = HI(p.cpu.PC)
                 /\ Stored(sp2) => mmu_read(mmu, sp2) = LO(p.cpu.PC)
                 /\ cpu.PC = 64 + 8 * i
            ELSE /\ cpu.PC = p.cpu.PC
                 /\ cpu.SP = p.cpu.SP
                 /\ cpu.ime = p.cpu.ime
                 /\ mmu = p.mmu

\* a dispatch with two interrupts pending (bits 1 and 2) and the stack in
\* HRAM: bit 1 was serviced
C2_Dispatch_Witness ==
    /\ Called("handle_interrupts")
    /\ Last.cpu.ime
    /\ Pending(Last.mmu) = 6
    /\ Last.cpu.SP = 65534
    /\ Last.cpu.PC = 49407
    /\ cpu.PC = 72
    /\ mmu.interrupt_flag = 4
    /\ mmu_read(mmu, 65533) = 192
    /\ mmu_read(mmu, 65532) = 255

\* C3: handle_interrupts on a halted CPU clears halted if pending = IF & IE &
\* 0x1F is nonzero (whatever ime is) and leaves halted set if pending is zero.
C3_HaltWakesOnPending ==
    (Called("handle_interrupts") /\ Last.cpu.halted) =>
        (cpu.halted <=> Pending(Last.mmu) = 0)

\* C4: every tick of the run loop ends with interrupts.handle, after cpu.step
\* and timer.step: when a tick is over and the next instruction is about to
\* be fetched, no enabled interrupt is left pending with ime set (a TIMA
\* overflow of that tick with IE bit 2 set has been dispatched).
C4_TickDispatchesBeforeNextFetch ==
    (running /\ Called("timer_step")) => ~(cpu.ime /\ Pending(mmu) # 0)

\* the bit of the internal counter TAC bits 1..0 select: 9, 3, 5, 7
WatchedBit(tac) ==
    IF tac % 4 = 0 THEN 9 ELSE IF tac % 4 = 1 THEN 3
    ELSE IF tac % 4 = 2 THEN 5 ELSE 7

\* the number of 1-to-0 transitions of a bit as a 16-bit counter advances
\* from old by cycles, one at a time
FallingEdges(old_, cycles, b) ==
    Cardinality({t \in 1 .. cycles :
                    /\ Bit(U16(old_ + t - 1), b) = 1
                    /\ Bit(U16(old_ + t), b) = 0})

RECURSIVE TimaAfter(_, _, _)
\* TIMA after n increments, each overflow reloading TMA
TimaAfter(tima, tma, n) ==
    IF n = 0 THEN tima
    ELSE TimaAfter(IF tima = 255 THEN tma ELSE tima + 1, tma, n - 1)

\* C5: a timer step with TAC bit 2 set increments TIMA once for each 1-to-0
\* transition of the watched bit that occurs as the counter advances by
\* cycles, also when several occur within the step.
C5_EveryFallingEdgeCounts ==
    (Called("timer_step") /\ Bit(Last.mmu.tac, 2) = 1) =>
        mmu.tima = TimaAfter(Last.mmu.tima, Last.mmu.tma,
                       FallingEdges(Last.mmu.internal_timer, Last.a1,
                                    WatchedBit(Last.mmu.tac)))

\* the timer step just made saw the watched bit fall with TAC bit 2 set and
\* TIMA = 0xFF: its increment took TIMA past 0xFF
TimaOverflowed ==
    LET p == Last.mmu
    IN  /\ Bit(p.tac, 2) = 1
        /\ p.tima = 255
        /\ Bit(p.internal_timer, WatchedBit(p.tac)) = 1
        /\ Bit(mmu.internal_timer, WatchedBit(p.tac)) = 0

\* C6: when a timer step with TAC bit 2 set takes TIMA past 0xFF, TIMA is
\* reloaded with TMA and bit 2 of IF is set, the other IF bits unchanged;
\* a step without an overflow leaves IF unchanged, and a step with TAC bit 2
\* clear leaves TIMA and IF unchanged.
C6_OverflowReloadsAndRequests ==
    Called("timer_step") =>
        /\ TimaOverflowed =>
            /\ mmu.tima = Last.mmu.tma
            /\ mmu.interrupt_flag = SetBit(Last.mmu.interrupt_flag, 2)
        /\ ~TimaOverflowed => mmu.interrupt_flag = Last.mmu.interrupt_flag
        /\ Bit(Last.mmu.tac, 2) = 0 =>
            /\ mmu.tima = Last.mmu.tima
            /\ mmu.interrupt_flag = Last.mmu.interrupt_flag

\* an overflow with TMA = 0xAB and IF = 0x1B: TIMA = 0xAB, IF = 0x1F after
C6_OverflowReloadsAndRequests_Witness ==
    /\ Called("timer_step")
    /\ TimaOverflowed
    /\ Last.mmu.tma = 171
    /\ Last.mmu.interrupt_flag = 27
    /\ mmu.tima = 171
    /\ mmu.interrupt_flag = 31

\* JP, JR, CALL, RET, RETI and RST, conditional or not
BranchOps ==
    {195, 194, 202, 210, 218, 233} \cup {24, 32, 40, 48, 56}
    \cup {205, 196, 204, 212, 220} \cup {201, 192, 200, 208, 216, 217}
    \cup {199, 207, 215, 223, 231, 239, 247, 255}

\* the bytes that encode no instruction
UnusedOps == {211, 219, 221, 227, 228, 235, 236, 237, 244, 252, 253}

\* the encoded length of the instruction an opcode byte starts
InstrLength(opcode) ==
    IF opcode \in {1, 17, 33, 49, 8, 234, 250} THEN 3
    ELSE IF opcode \in {6, 14, 22, 30, 38, 46, 54, 62}
                       \cup {198, 206, 214, 222, 230, 238, 246, 254}
                       \cup {224, 240, 232, 248, 16, 203} THEN 2
    ELSE 1

\* C7: one step of a non-branch, recognised instruction from a non-halted
\* state leaves PC = old PC + the encoded length of the instruction (1, 2 for
\* an 8-bit immediate and for CB opcodes, 3 for a 16-bit immediate).
C7_SequentialPC ==
    (Called("cpu_step") /\ Last.a1 \in (0 .. 255) \ (BranchOps \cup UnusedOps))
        => cpu.PC = U16(Last.cpu.PC + InstrLength(Last.a1))

\* the pair a PUSH opcode pushes, as <<high, low>>; F without its low nibble
PairOf(c, push_op) ==
    CASE push_op = 197 -> <<c.B, c.C>>
      [] push_op = 213 -> <<c.D, c.E>>
      [] push_op = 229 -> <<c.H, c.L>>
      [] OTHER -> <<c.A, (c.F \div 16) * 16>>

\* the latest step executed a PUSH rr
Pushed == Called("cpu_step") /\ Last.a1 \in {197, 213, 229, 245}

\* the latest two steps executed PUSH rr and then POP of the same rr
PushedThenPopped ==
    /\ Len(hist) = 2
    /\ hist[2].fn = "cpu_step" /\ hist[2].a1 \in {197, 213, 229, 245}
    /\ hist[1].fn = "cpu_step" /\ hist[1].a1 = hist[2].a1 - 4

\* C8 as stated: PUSH rr stores the high byte at SP-1 and the low byte at
\* SP-2, and PUSH rr followed by POP rr leaves rr and SP as they were before
\* the PUSH (F without its low nibble), from any state.
C8_PushPopAsStated ==
    /\ Pushed =>
        /\ mmu_read(mmu, U16(Last.cpu.SP - 1)) = PairOf(Last.cpu, Last.a1)[1]
        /\ mmu_read(mmu, U16(Last.cpu.SP - 2)) = PairOf(Last.cpu, Last.a1)[2]
    /\ PushedThenPopped =>
        /\ PairOf(cpu, hist[2].a1) = PairOf(hist[2].cpu, hist[2].a1)
        /\ cpu.SP = hist[2].cpu.SP

\* C8 amended: PUSH rr followed by POP rr always leaves SP as it was; each
\* pushed byte is in memory when its address stores writes, and rr is as it
\* was when both SP-1 and SP-2 store writes.
C8_PushPop ==
    /\ Pushed =>
        LET sp1 == U16(Last.cpu.SP - 1)
            sp2 == U16(Last.cpu.SP - 2)
        IN  /\ Stored(sp1) =>
                mmu_read(mmu, sp1) = PairOf(Last.cpu, Last.a1)[1]
            /\ Stored(sp2) =>
                mmu_read(mmu, sp2) = PairOf(Last.cpu, Last.a1)[2]
            /\ cpu.SP = sp2
    /\ PushedThenPopped =>
        /\ cpu.SP = hist[2].cpu.SP
        /\ (Stored(U16(hist[2].cpu.SP - 1)) /\ Stored(U16(hist[2].cpu.SP - 2)))
            => PairOf(cpu, hist[2].a1) = PairOf(hist[2].cpu, hist[2].a1)

\* PUSH BC then POP BC with BC = 0x01FF and SP = 0xD002, over work RAM that
\* held other bytes
C8_PushPop_Witness ==
    /\ PushedThenPopped
    /\ hist[2].a1 = 197
    /\ hist[2].cpu.SP = 53250
    /\ mmu_read(hist[2].mmu, 53249) = 167
    /\ mmu_read(mmu, 53249) = 1
    /\ mmu_read(mmu, 53248) = 255
    /\ cpu.B = 1 /\ cpu.C = 255
    /\ cpu.SP = 53250

\* C9: after every completed instruction, base or CB, bits 0..3 of F are 0.
C9_FLowNibbleZero == cpu.F % 16 = 0

\* POP AF has read a byte with a nonzero low nibble (0xFF) into F
C9_FLowNibbleZero_Witness ==
    /\ Called("cpu_step")
    /\ Last.a1 = 241
    /\ mmu_read(Last.mmu, Last.cpu.SP) = 255
    /\ cpu.F = 240

\* the last call wrote value 0 to the ROM-bank-select register 0x2000-0x3FFF
WroteBankZero ==
    Called("mbc_write") /\ Last.a1 >= 8192 /\ Last.a1 < 16384 /\ Last.a2 = 0

\* C10 as stated: on MBC1 and MBC3 the ROM bank mapped at 0x4000-0x7FFF is
\* never bank 0; it is bank 1 right after init and again after a write of 0
\* to the ROM-bank-select register.
C10_UpperBankAsStated ==
    mbc.mbc_type \in {"MBC1", "MBC3"} =>
        /\ upper_rom_bank(mbc) # 0
        /\ hist = <<>> => upper_rom_bank(mbc) = 1
        /\ WroteBankZero => upper_rom_bank(mbc) = 1

\* C10 amended: never bank 0; bank 1 right after init; after a write of 0 to
\* the ROM-bank-select register bank 1 on MBC3 and bank 32 * h + 1 on MBC1,
\* h the two bits last written to 0x4000-0x5FFF.
C10_UpperBankNeverZero ==
    mbc.mbc_type \in {"MBC1", "MBC3"} =>
        /\ upper_rom_bank(mbc) # 0
        /\ hist = <<>> => upper_rom_bank(mbc) = 1
        /\ WroteBankZero =>
            upper_rom_bank(mbc)
                = IF mbc.mbc_type = "MBC1"
                  THEN 32 * mbc.mbc1_rom_hi2_or_ram + 1 ELSE 1

\* MBC1 with bank 10 selected and h = 0: a write of 0 to 0x2000 maps bank 1
C10_UpperBankNeverZero_Witness ==
    /\ WroteBankZero
    /\ mbc.mbc_type = "MBC1"
    /\ Last.mbc.mbc1_rom_lo5 = 10
    /\ upper_rom_bank(Last.mbc) = 10
    /\ upper_rom_bank(mbc) = 1

---------------------------------------------------------------------------
(* The bus and the cartridge.                                              *)

\* echo addresses: both ends of 0xE000..0xFDFF, the end of its first 4 KiB
\* and the addresses whose work-RAM or echo byte is written
EchoAddrs == {57344, 57349, 57350, 61439, 61440, 65022, 65023}

\* bus addresses read back: every region, its first and last byte
BusProbe ==
    {0, 2, 16383, 16384, 32767, 32768, 40959, 40960, 49151, 49152, 49157,
     49158, 53247, 56831, 57343, 65024, 65183, 65184, 65189, 65279, 65280,
     65295, 65407, 65408, 65534, 65535} \cup EchoAddrs

\* the last call was a bus write to an address in lo..hi
Wrote(lo, hi) == Called("mmu_write") /\ Last.a1 >= lo /\ Last.a1 <= hi

\* C11: after any sequence of bus writes a read of a in 0xE000..0xFDFF
\* returns the byte a read of a - 0x2000 returns; a write to a work-RAM or
\* echo address is read back at the address and at its alias, and no other
\* byte of wram[] changes.
C11_EchoAliasesWram ==
    /\ \A a \in EchoAddrs : mmu_read(mmu, a) = mmu_read(mmu, a - 8192)
    /\ Wrote(49152, 65023) =>
        LET off == Last.a1 % 8192
        IN  /\ mmu_read(mmu, 49152 + off) = Last.a2
            /\ off < 7680 => mmu_read(mmu, 57344 + off) = Last.a2
            /\ \A o \in ((DOMAIN mmu.wram) \cup (DOMAIN Last.mmu.wram)) \ {off} :
                   Get(mmu.wram, o) = Get(Last.mmu.wram, o)

\* 0x42 written to 0xC005, then 0x88 written to the echo address 0xE006:
\* 0xC006 reads 0x88 and 0xE005 still reads 0x42
C11_EchoAliasesWram_Witness ==
    /\ Len(hist) = 2
    /\ Wrote(57350, 57350)
    /\ hist[2].fn = "mmu_write" /\ hist[2].a1 = 49157
    /\ mmu_read(mmu, 49158) = 136
    /\ mmu_read(mmu, 57349) = 66

\* C12: after any sequence of bus writes every read of 0xFEA0..0xFEFF
\* returns 0xFF, and a write to such an address changes nothing: the memory
\* is the memory before the write, and every bus address reads as before.
C12_UnusableRegion ==
    /\ \A a \in 65184 .. 65279 : mmu_read(mmu, a) = 255
    /\ Wrote(65184, 65279) =>
        /\ mmu = Last.mmu
        /\ \A a \in BusProbe : mmu_read(mmu, a) = mmu_read(Last.mmu, a)

\* 0x12 written to 0xCFFF, then 0x55 written to 0xFEA0: 0xCFFF reads 0x12
\* and 0xFEA0 reads 0xFF
C12_UnusableRegion_Witness ==
    /\ Len(hist) = 2
    /\ Wrote(65184, 65184)
    /\ Last.a2 = 85
    /\ hist[2].fn = "mmu_write" /\ hist[2].a1 = 53247
    /\ mmu_read(mmu, 53247) = 18
    /\ mmu_read(mmu, 65184) = 255

\* external-RAM addresses read back: both ends of 0xA000..0xBFFF
EramProbe == {40960, 49151}

\* C13: on MBC1, after any sequence of bus writes, external RAM is enabled
\* exactly when the most recent write to 0x0000..0x1FFF had
\* (value & 0x0F) = 0x0A (disabled when there was none); while it is
\* disabled every bus read of 0xA000..0xBFFF returns 0xFF, and while it is
\* enabled a byte written to an external-RAM address inside the buffer is
\* read back at that address.
C13_RamEnableGate ==
    mbc.mbc_type = "MBC1" =>
        /\ hist = <<>> => ~mbc.ram_enable
        /\ Wrote(0, 8191) => (mbc.ram_enable <=> RamEnableValue(Last.a2))
        /\ Wrote(8192, 65535) => (mbc.ram_enable <=> Last.mbc.ram_enable)
        /\ ~mbc.ram_enable => \A a \in EramProbe : mmu_read(mmu, a) = 255
        /\ ( /\ mbc.ram_enable
             /\ Wrote(40960, 49151)
             /\ Last.a1 - 40960 < mbc.g_eram_size )
            => mmu_read(mmu, Last.a1) = Last.a2

\* C14: a bus write to 0xA000..0xBFFF made while external RAM is disabled
\* changes no byte of external RAM.
C14_DisabledRamWriteDropped ==
    (Wrote(40960, 49151) /\ ~Last.mbc.ram_enable) =>
        /\ mmu.eram = Last.mmu.eram
        /\ mbc.eram = Last.mbc.eram

\* the ROM image and buffer length the bus was loaded with
LoadedRom(m) ==
    \E cart \in Carts, g \in UBBytes :
        /\ m.rom_size = cart[2] * 16384
        /\ m.rom = IF cart[2] < 2 THEN RomThenHeap(cart[2], g)
                   ELSE RomImage(cart[2])

\* C15: no sequence of bus writes to 0x0000..0x7FFF changes a byte of the
\* ROM buffer, whatever the cartridge kind: the buffer is the image loaded,
\* a write leaves it (and the controller's rom[]) as it was, and with kind
\* None every ROM address reads the byte it read before the write.
C15_RomNeverWritten ==
    /\ LoadedRom(mmu)
    /\ Wrote(0, 32767) =>
        /\ mmu.rom = Last.mmu.rom
        /\ mbc.rom = Last.mbc.rom
        /\ mbc.mbc_type = "ROM_ONLY" =>
            \A a \in BusProbe :
                a < 32768 => mmu_read(mmu, a) = mmu_read(Last.mmu, a)

\* kind None, 32 KiB: after 0xFF was written to 0x0002 the address still
\* reads the ROM byte 0x41
C15_RomNeverWritten_Witness ==
    /\ Wrote(2, 2)
    /\ Last.a2 = 255
    /\ mbc.mbc_type = "ROM_ONLY"
    /\ mmu.rom_size = 32768
    /\ mmu_read(Last.mmu, 2) = 65
    /\ mmu_read(mmu, 2) = 65

\* the value of the most recent mbc_write to an address in lo..hi, default
\* when there was none
LastWritten(lo, hi, default) ==
    LET idx == {i \in 1 .. Len(hist) :
                    /\ hist[i].fn = "mbc_write"
                    /\ hist[i].a1 >= lo
                    /\ hist[i].a1 <= hi}
    IN  IF idx = {} THEN default
        ELSE hist[CHOOSE i \in idx : \A j \in idx : i <= j].a2

\* rom[off], 0xFF when off is not inside the ROM buffer
RomByte(b, off) == IF off < b.g_rom_size THEN Get(b.rom, off) ELSE 255

\* addresses of the upper window read back: its first, third and last byte
UpperProbe == {16384, 16386, 32767}

mmu_rom_index(addr) == addr

\* the index into mmu.eram[] that mmu_read and mmu_write use for addr in
\* 0xA000..0xBFFF
mmu_eram_index(addr) == addr - 40960

\* C17: for every cartridge kind, buffer length and control-register state,
\* a bus read in 0x0000..0x7FFF or 0xA000..0xBFFF whose buffer offset is not
\* below the buffer length returns 0xFF, a write at such an offset is
\* discarded, and no bus access indexes outside the ROM or ERAM buffer.
C17_CartridgeOffsetsBounded ==
    /\ \A a \in BusProbe :
        (a < 32768 /\ mmu_rom_index(a) >= mmu.rom_size)
            => mmu_read(mmu, a) = 255
    /\ \A a \in EramProbe :
        mmu_eram_index(a) >= mbc.g_eram_size => mmu_read(mmu, a) = 255
    /\ (Wrote(40960, 49151) /\ mmu_eram_index(Last.a1) >= mbc.g_eram_size)
        => mmu.eram = Last.mmu.eram
    /\ \A a \in BusProbe : a < 32768 => mmu_rom_index(a) < mmu.rom_size

---------------------------------------------------------------------------
(* What cpu_step returns.                                                  *)

\* C18: cpu_step on a halted CPU returns 4 and changes no register, flag or
\* memory byte (PC included); the CPU is still halted afterwards, so this
\* holds across any number of such steps.
C18_HaltedStepIdles ==
    (Called("cpu_step") /\ Last.cpu.halted) =>
        /\ Last.ret = 4
        /\ cpu = Last.cpu
        /\ mmu = Last.mmu
        /\ cpu.halted

\* HALT was executed by the first step; the second step, on the halted CPU,
\* returned 4 and left PC behind the HALT
C18_HaltedStepIdles_Witness ==
    /\ Len(hist) = 2
    /\ hist[2].fn = "cpu_step" /\ hist[2].a1 = 118
    /\ Called("cpu_step") /\ Last.cpu.halted
    /\ Last.ret = 4
    /\ cpu.PC = 257

\* C19: stepping a non-halted CPU onto an opcode that encodes no instruction
\* sets halted and cpu_step returns a nonzero cycle count.
C19_IllegalOpcodeHalts ==
    (Called("cpu_step") /\ ~Last.cpu.halted /\ Last.a1 \in UnusedOps) =>
        /\ cpu.halted
        /\ Last.ret # 0

\* the T-cycle counts of the LR35902
CycleCounts == {4, 8, 12, 16, 20, 24}

\* JP cc, JR cc, CALL cc, RET cc
CondBranchOps == OpJpCc \cup OpJrCc \cup OpCallCc \cup OpRetCc

\* what cpu_step returns when run in the state of call e with flags f
RetWithFlags(e, f) ==
    cpu_step([cpu |-> [e.cpu EXCEPT !.F = f], mmu |-> e.mmu]).ret

\* C20: for every implemented opcode, base and CB-prefixed, cpu_step returns
\* a T-cycle count in {4, 8, 12, 16, 20, 24}; a conditional branch returns
\* strictly more when taken than when not taken, JR cc,e 12 and 8.
C20_CycleCounts ==
    (Called("cpu_step") /\ Last.a1 \in (0 .. 255) \ UnusedOps) =>
        /\ Last.ret \in CycleCounts
        /\ Last.a1 \in CondBranchOps =>
            \A ft, fu \in {0, 16, 128, 144} :
                (Cond(ft, Last.a1) /\ ~Cond(fu, Last.a1)) =>
                    RetWithFlags(Last, ft) > RetWithFlags(Last, fu)
        /\ Last.a1 \in OpJrCc =>
            Last.ret = IF Cond(Last.cpu.F, Last.a1) THEN 12 ELSE 8


---------------------------------------------------------------------------
(* Calls and returns.                                                      *)

\* the operand nn of the CALL fetched in the step e
CallTarget(e) == MK16(mmu_read(e.mmu, U16(e.cpu.PC + 2)), e.a2)

\* the latest step executed CALL nn (0xCD)
CalledNN == Called("cpu_step") /\ Last.a1 = 205

\* the latest two steps executed CALL nn and then RET (0xC9)
CalledThenReturned ==
    /\ Len(hist) = 2
    /\ hist[2].fn = "cpu_step" /\ hist[2].a1 = 205
    /\ hist[1].fn = "cpu_step" /\ hist[1].a1 = 201

\* C21 as stated: CALL nn at p with SP = s sets PC = nn and SP = s - 2 and
\* stores the high byte of p + 3 at s - 1 and the low byte at s - 2, and a
\* RET executed next restores PC = p + 3 and SP = s, from any state.
C21_CallRetAsStated ==
    /\ CalledNN =>
        /\ cpu.PC = CallTarget(Last)
        /\ cpu.SP = U16(Last.cpu.SP - 2)
        /\ mmu_read(mmu, U16(Last.cpu.SP - 1)) = HI(U16(Last.cpu.PC + 3))
        /\ mmu_read(mmu, U16(Last.cpu.SP - 2)) = LO(U16(Last.cpu.PC + 3))
    /\ CalledThenReturned =>
        /\ cpu.PC = U16(hist[2].cpu.PC + 3)
        /\ cpu.SP = hist[2].cpu.SP

\* C21 amended: CALL nn always sets PC = nn and SP = s - 2; each byte of
\* p + 3 is in memory when its address stores writes; a RET executed next
\* always restores SP = s, and restores PC = p + 3 when both s - 1 and s - 2
\* store writes.
C21_CallRet ==
    /\ CalledNN =>
        LET sp1 == U16(Last.cpu.SP - 1)
            sp2 == U16(Last.cpu.SP - 2)
            nxt == U16(Last.cpu.PC + 3)
        IN  /\ cpu.PC = CallTarget(Last)
            /\ cpu.SP = sp2
            /\ Stored(sp1) => mmu_read(mmu, sp1) = HI(nxt)
            /\ Stored(sp2) => mmu_read(mmu, sp2) = LO(nxt)
    /\ CalledThenReturned =>
        /\ cpu.SP = hist[2].cpu.SP
        /\ (Stored(U16(hist[2].cpu.SP - 1)) /\ Stored(U16(hist[2].cpu.SP - 2)))
            => cpu.PC = U16(hist[2].cpu.PC + 3)

\* CALL 0x0104 at 0x0100 with SP = 0xD002 over work RAM that held other
\* bytes, then the RET at 0x0104
C21_CallRet_Witness ==
    /\ CalledThenReturned
    /\ hist[2].cpu.PC = 256 /\ hist[2].cpu.SP = 53250
    /\ hist[1].cpu.PC = 260 /\ hist[1].cpu.SP = 53248
    /\ mmu_read(hist[2].mmu, 53249) = 167
    /\ mmu_read(mmu, 53249) = 1
    /\ mmu_read(mmu, 53248) = 3
    /\ cpu.PC = 259 /\ cpu.SP = 53250


---------------------------------------------------------------------------
(* Arithmetic.                                                             *)

\* the machine state the step e was made in
Before(e) == [cpu |-> e.cpu, mmu |-> e.mmu]

\* the latest step executed ADD, ADC, SUB, SBC or CP
Arith8Step == Called("cpu_step") /\ Last.a1 \in OpArith8R \cup OpArith8N

\* the operation of an 8-bit arithmetic opcode: 0 ADD, 1 ADC, 2 SUB, 3 SBC,
\* 7 CP
Arith8Kind(opcode) ==
    IF opcode \in OpArith8N THEN (opcode - 192) \div 8
    ELSE (opcode - 128) \div 8

\* the operand x of the 8-bit arithmetic opcode fetched in the step e
Arith8Operand(e) ==
    IF e.a1 \in OpArith8N THEN e.a2 ELSE GetR(Before(e), e.a1 % 8)

\* the byte F with the flags Z, N, H, C as given
FlagByte(z, n, h, c) ==
    (IF z THEN 128 ELSE 0) + (IF n THEN 64 ELSE 0) + (IF h THEN 32 ELSE 0)
    + (IF c THEN 16 ELSE 0)

AddHLOperand(e) ==
    CASE e.a1 = 9 -> REG_BC(e.cpu) [] e.a1 = 25 -> REG_DE(e.cpu)
      [] e.a1 = 41 -> REG_HL(e.cpu) [] OTHER -> e.cpu.SP

\* C23: ADD HL,rr sets HL = (HL + rr) mod 0x10000, N = 0, H = carry out of
\* bit 11, C = carry out of bit 15, and leaves Z as it was, for every HL,
\* rr and prior F.
C23_AddHL ==
    (Called("cpu_step") /\ Last.a1 \in {9, 25, 41, 57}) =>
        LET hl == REG_HL(Last.cpu)
            rr == AddHLOperand(Last)
        IN  /\ REG_HL(cpu) = (hl + rr) % 65536
            /\ cpu.F = FlagByte(Flag(Last.cpu.F, FLAG_Z), FALSE,
                                (hl % 4096) + (rr % 4096) > 4095,
                                hl + rr > 65535)


\* C24: DAA, for every A and every N/H/C: with N = 0, A += 0x60 and C = 1
\* if C or A > 0x99, and A += 0x06 if H or (A & 0x0F) > 9; with N = 1,
\* A -= 0x60 if C and A -= 0x06 if H; then Z = (A = 0) and H = 0.  So with
\* N = H = C = 0 an A whose nibbles are both <= 9 is unchanged.
C24_Daa ==
    (Called("cpu_step") /\ Last.a1 = 39) =>
        LET a == Last.cpu.A
            n == Flag(Last.cpu.F, FLAG_N)
            h == Flag(Last.cpu.F, FLAG_H)
            c == Flag(Last.cpu.F, FLAG_C)
            hi == IF n THEN c ELSE c \/ a > 153
            lo == IF n THEN h ELSE h \/ (a % 16) > 9
            adj == (IF hi THEN 96 ELSE 0) + (IF lo THEN 6 ELSE 0)
            res == IF n THEN (a - adj) % 256 ELSE (a + adj) % 256
        IN  /\ cpu.A = res
            /\ cpu.F = FlagByte(res = 0, n, FALSE, hi)


\* the latest step executed a CB-prefixed rotate, shift or SWAP (0x00-0x3F)
CbShiftStep == Called("cpu_step") /\ Last.a1 = 203 /\ Last.a2 < 64

\* the bit a CB rotate or shift moves out of the operand v: bit 7 for RLC,
\* RL and SLA, bit 0 for RRC, RR, SRA and SRL; none for SWAP
ShiftedOut(cb, v) ==
    LET k == cb \div 8
    IN  CASE k \in {0, 2, 4} -> Bit(v, 7) = 1
          [] k \in {1, 3, 5, 7} -> v % 2 = 1
          [] OTHER -> FALSE

\* C25: every CB-prefixed RLC/RL/RRC/RR/SLA/SRA/SRL/SWAP on B, C, D, E, H,
\* L, (HL) and A sets Z if and only if the 8-bit result is 0, sets
\* N = H = 0 and sets C to the bit shifted out (0 for SWAP); the base
\* opcodes RLCA/RLA/RRCA/RRA force Z = 0.
C25_CbShiftFlags ==
    /\ CbShiftStep =>
        LET result == GetR(S, Last.a2 % 8)
            old_ == GetR(Before(Last), Last.a2 % 8)
        IN  cpu.F = FlagByte(result = 0, FALSE, FALSE,
                             ShiftedOut(Last.a2, old_))
    /\ (Called("cpu_step") /\ Last.a1 \in OpRotA) => ~Flag(cpu.F, FLAG_Z)


---------------------------------------------------------------------------
(* Loading.                                                                *)

\* the latest call loaded a file that exists and is shorter than 0x150 bytes
LoadedShort ==
    /\ hist # <<>>
    /\ Last.fn \in {"mmu_load_rom", "load_rom"}
    /\ Last.a1.exists /\ Last.a1.size < 336

\* C26: loading a ROM image shorter than 0x150 bytes fails (the loader
\* reports failure: mmu_load_rom a nonzero value, load_rom 0) and leaves no
\* ROM loaded, through either loader.
C26_ShortRomRejected ==
    LoadedShort =>
        IF Last.fn = "mmu_load_rom"
        THEN Last.ret # 0 /\ mmu.rom_ptr # "live"
        ELSE Last.ret.ret = 0 /\ ~Last.ret.stored


---------------------------------------------------------------------------
(* DI.                                                                     *)

\* a DI (0xF3) was fetched and executed with ime = TRUE
DIStep(e) == e.fn = "cpu_step" /\ e.a1 = 243 /\ e.cpu.ime

\* C27: after DI executes with ime = TRUE, ime is still TRUE when that step
\* completes (so while the following instruction runs), and ime is FALSE
\* with the pending flag clear once the instruction following the DI (not
\* an EI or RETI, which enable again) has completed.
C27_DIDelaysOneInstruction ==
    /\ (hist # <<>> /\ DIStep(hist[1])) => cpu.ime
    /\ (Len(hist) = 2 /\ DIStep(hist[2]) /\ hist[1].fn = "cpu_step"
        /\ hist[1].a1 \notin {-1, 251, 217})
        => (~cpu.ime /\ ~cpu.ime_disable)


---------------------------------------------------------------------------
(* The timer registers on the bus.                                         *)

\* the latest call was a bus write to addr
WroteTo(addr) == Called("mmu_write") /\ Last.a1 = addr

\* C28: the timer registers seen through the bus are the timer's own state:
\* after a timer step a read of 0xFF04 returns bits 8..15 of the internal
\* counter and reads of 0xFF05/06/07 return the TIMA/TMA/TAC the step used
\* and updated, and a bus write to 0xFF05/06/07 sets TIMA/TMA/TAC.
C28_TimerRegistersOnBus ==
    /\ Called("timer_step") =>
        /\ mmu_read(mmu, 65284) = (mmu.internal_timer \div 256) % 256
        /\ mmu_read(mmu, 65285) = mmu.tima
        /\ mmu_read(mmu, 65286) = mmu.tma
        /\ mmu_read(mmu, 65287) = mmu.tac
    /\ WroteTo(65285) => mmu.tima = Last.a2
    /\ WroteTo(65286) => mmu.tma = Last.a2
    /\ WroteTo(65287) => mmu.tac = Last.a2

\* C29: a bus write of any value to 0xFF04 sets the internal counter to 0,
\* and a read of 0xFF04 right after it returns 0.
C29_DivWriteResets ==
    WroteTo(65284) =>
        /\ mmu.internal_timer = 0
        /\ mmu_read(mmu, 65284) = 0

\* C30: with TAC bit 2 set and the watched bit of the internal counter 1, a
\* bus write to 0xFF04 increments TIMA by one, reloading TMA and setting IF
\* bit 2 on overflow.
C30_DivWriteFallingEdge ==
    (/\ WroteTo(65284)
     /\ Bit(Last.mmu.tac, 2) = 1
     /\ Bit(Last.mmu.internal_timer, WatchedBit(Last.mmu.tac)) = 1) =>
        /\ mmu.tima = TimaAfter(Last.mmu.tima, Last.mmu.tma, 1)
        /\ Last.mmu.tima = 255 =>
            mmu.interrupt_flag = SetBit(Last.mmu.interrupt_flag, 2)


---------------------------------------------------------------------------
(* ADD SP,e.                                                               *)

\* C31: ADD SP,e (0xE8) takes e, signed, from the byte after the opcode and
\* sets SP = (SP + e) mod 0x10000 with Z = N = 0, H = carry out of bit 3 and
\* C = carry out of bit 7 of SP's low byte + e.
C31_AddSPImmediate ==
    (Called("cpu_step") /\ Last.a1 = 232) =>
        LET sp == Last.cpu.SP
            e == Last.a2
        IN  /\ cpu.SP = U16(sp + S8(e))
            /\ cpu.F = FlagByte(FALSE, FALSE, (sp % 16) + (e % 16) > 15,
                                (sp % 256) + e > 255)


---------------------------------------------------------------------------
(* The run loop and HALT.                                                  *)

\* the latest iteration of the run loop executed HALT (0x76) or STOP (0x10)
HaltedInLoop ==
    \E i \in 1 .. Len(hist) :
        hist[i].fn = "cpu_step" /\ hist[i].a1 \in {118, 16}

\* C32: executing HALT or STOP does not end the run loop; the loop goes on
\* ticking with the CPU halted.
C32_HaltKeepsLoopRunning == HaltedInLoop => running


---------------------------------------------------------------------------
(* mbc.c: external RAM banking.  The controllers with banked external RAM  *)
(* are driven through mbc_write and mbc_write_ram on a cartridge with four *)
(* RAM banks.                                                               *)

\* number of controller calls followed from an initial state
MaxEramOps == 5

\* cartridges with 32 KiB of external RAM: kind, number of ROM banks
EramCarts == { <<"MBC1", 64>>, <<"MBC3", 8>>, <<"MBC5", 8>> }

\* control writes: RAM enable, a ROM bank, the RAM-bank register (a bank,
\* another bank, the first RTC selector), MBC1's mode
EramCtlWrites ==
    { <<0, 10>>, <<8448, 2>>, <<16384, 0>>, <<16384, 1>>, <<16384, 8>>,
      <<24576, 1>> }

\* external RAM writes: the first and the last byte of the window
EramRamWrites == { <<40960, 205>>, <<49151, 17>> }

\* one call of mbc_write(addr, value)
EramCtl ==
    /\ nsteps < MaxEramOps
    /\ \E w \in EramCtlWrites :
        /\ mbc' = mbc_write(mbc, w[1], w[2])
        /\ Trace("mbc_write", w[1], w[2], 0)
    /\ nsteps' = nsteps + 1
    /\ UNCHANGED <<cpu, mmu, running>>

\* one call of mbc_write_ram(addr, value)
EramWrite ==
    /\ nsteps < MaxEramOps
    /\ \E w \in EramRamWrites :
        /\ mbc' = mbc_write_ram(mbc, w[1], w[2])
        /\ Trace("mbc_write_ram", w[1], w[2], 0)
    /\ nsteps' = nsteps + 1
    /\ UNCHANGED <<cpu, mmu, running>>

InitEram ==
    \E cart \in EramCarts :
        Setup(cpu_reset, mmu_init(EmptyArr),
              mbc_buffers(mbc_init(cart[1]), RomImage(cart[2]),
                          cart[2] * 16384, 32768))

NextEram == EramCtl \/ EramWrite

SpecEram == InitEram /\ [][NextEram]_vars

\* addresses of the lower window read back: its first, third and last byte
LowerProbe == {0, 2, 16383}

\* C33: on MBC1, after any sequence of control writes, with mode the last
\* (value & 1) written to 0x6000..0x7FFF (default 0) and hi2 the last
\* (value & 3) written to 0x4000..0x5FFF (default 0): a read of a in
\* 0x0000..0x3FFF returns rom[a] in mode 0 and rom[(hi2 << 5) * 0x4000 + a]
\* in mode 1, and with RAM enabled the external RAM reads and writes at a in
\* 0xA000..0xBFFF use offset bank * 0x2000 + (a - 0xA000), bank = 0 in mode
\* 0 and hi2 in mode 1.
C33_Mbc1ModeSelectsBanks ==
    mbc.mbc_type = "MBC1" =>
        LET mode == LastWritten(24576, 32767, 0) % 2
            hi2 == LastWritten(16384, 24575, 0) % 4
            bank == IF mode = 0 THEN 0 ELSE hi2
        IN  /\ \A a \in LowerProbe :
                mbc_read(mbc, a) =
                    RomByte(mbc, (IF mode = 0 THEN 0 ELSE hi2 * 32) * 16384 + a)
            /\ mbc.ram_enable =>
                \A a \in EramProbe :
                    mbc_read_ram(mbc, a) =
                        Get(mbc.eram, bank * 8192 + (a - 40960))
            /\ (Called("mbc_write_ram") /\ Last.mbc.ram_enable) =>
                mbc.eram = Put(Last.mbc.eram,
                               bank * 8192 + (Last.a1 - 40960), Last.a2)

\* RAM enabled, mode 1, hi2 = 1, then 0xCD written to 0xA000: the lower
\* window reads bank 32 and the byte went to eram[0x2000]
C33_Mbc1ModeSelectsBanks_Witness ==
    /\ mbc.mbc_type = "MBC1"
    /\ Called("mbc_write_ram") /\ Last.a1 = 40960
    /\ Last.mbc.ram_enable
    /\ mbc.mbc1_mode = 1
    /\ mbc.mbc1_rom_hi2_or_ram = 1
    /\ mbc_read(mbc, 0) = 33
    /\ Get(mbc.eram, 8192) = 205
    /\ Get(mbc.eram, 0) = 0
    /\ mbc_read_ram(mbc, 40960) = 205


---------------------------------------------------------------------------
(* mbc.c: the bank registers of MBC5.                                      *)

\* number of control writes followed from an initial state
MaxMbc5Ops == 4

\* an address in the region of the low bank byte, of bank bit 8 and of the
\* RAM bank
Mbc5CtlAddrs == {8192, 12288, 16384}

Mbc5CtlVals == {0, 1, 3, 255}

\* one call of mbc_write(addr, value)
Mbc5Write ==
    /\ nsteps < MaxMbc5Ops
    /\ \E addr \in Mbc5CtlAddrs, value \in Mbc5CtlVals :
        /\ mbc' = mbc_write(mbc, addr, value)
        /\ Trace("mbc_write", addr, value, 0)
    /\ nsteps' = nsteps + 1
    /\ UNCHANGED <<cpu, mmu, running>>

\* an MBC5 cartridge of 8 ROM banks and 32 KiB of external RAM
InitMbc5 ==
    Setup(cpu_reset, mmu_init(EmptyArr),
          mbc_buffers(mbc_init("MBC5"), RomImage(8), 8 * 16384, 32768))

NextMbc5 == Mbc5Write

SpecMbc5 == InitMbc5 /\ [][NextMbc5]_vars

\* C34: on MBC5, after any sequence of control writes, the ROM bank of
\* 0x4000..0x7FFF is ((h & 1) << 8) | l, l the last value written to
\* 0x2000..0x2FFF (1 after init) and h the last value written to
\* 0x3000..0x3FFF (0 after init), whatever the order of the two writes; bank
\* 0 is not coerced to 1; the RAM bank is the last (value & 0x0F) written to
\* 0x4000..0x5FFF.
C34_Mbc5BankRegisters ==
    mbc.mbc_type = "MBC5" =>
        LET l == LastWritten(8192, 12287, 1)
            h == LastWritten(12288, 16383, 0)
            bank == (h % 2) * 256 + l
        IN  /\ mbc.mbc5_rom_bank = bank
            /\ \A a \in UpperProbe :
                mbc_read(mbc, a) = RomByte(mbc, bank * 16384 + (a - 16384))
            /\ mbc.mbc5_ram_bank = LastWritten(16384, 24575, 0) % 16
            /\ ram_bank(mbc) = LastWritten(16384, 24575, 0) % 16

\* bit 8 set first, then the low byte 3, then bit 8 cleared and the low byte
\* 0: the upper window reads bank 0
C34_Mbc5BankRegisters_Witness ==
    /\ mbc.mbc_type = "MBC5"
    /\ Len(hist) = 4
    /\ hist[4].a1 = 12288 /\ hist[4].a2 = 1
    /\ hist[3].a1 = 8192 /\ hist[3].a2 = 3
    /\ hist[3].mbc.mbc5_rom_bank = 257
    /\ hist[2].mbc.mbc5_rom_bank = 259
    /\ hist[2].a1 = 12288 /\ hist[2].a2 = 0
    /\ hist[1].mbc.mbc5_rom_bank = 3
    /\ hist[1].a1 = 8192 /\ hist[1].a2 = 0
    /\ mbc.mbc5_rom_bank = 0
    /\ mbc_read(mbc, 16384) = 1
    /\ mbc_read(hist[1].mbc, 16384) = 4



\* C35: on MBC3, after any sequence of control writes, reads of
\* 0x0000..0x3FFF come from ROM bank 0; with RAM enabled and the register
\* ram_bank_or_rtc in 0..3 the external RAM reads and writes use that bank;
\* with an RTC selector 0x08..0x0C in the register every read of
\* 0xA000..0xBFFF returns 0xFF and a write changes no external RAM byte.
C35_Mbc3RamBankOrRtc ==
    mbc.mbc_type = "MBC3" =>
        LET sel == LastWritten(16384, 24575, 0)
        IN  /\ mbc.mbc3_ram_bank_or_rtc = sel
            /\ \A a \in LowerProbe : mbc_read(mbc, a) = Get(mbc.rom, a)
            /\ (mbc.ram_enable /\ sel \in 0 .. 3) =>
                /\ \A a \in EramProbe :
                    mbc_read_ram(mbc, a) =
                        Get(mbc.eram, sel * 8192 + (a - 40960))
                /\ Called("mbc_write_ram") =>
                    mbc.eram = Put(Last.mbc.eram,
                                   sel * 8192 + (Last.a1 - 40960), Last.a2)
            /\ sel \in 8 .. 12 =>
                /\ \A a \in EramProbe : mbc_read_ram(mbc, a) = 255
                /\ Called("mbc_write_ram") => mbc.eram = Last.mbc.eram

\* RAM enabled, 0xCD stored at 0xA000 of bank 0, selector 0x08 written, then
\* 0xCD written to 0xA000 again: external RAM is as before and reads 0xFF
C35_Mbc3RamBankOrRtc_Witness ==
    /\ mbc.mbc_type = "MBC3"
    /\ Len(hist) >= 4
    /\ Called("mbc_write_ram") /\ Last.a1 = 40960
    /\ hist[2].fn = "mbc_write" /\ hist[2].a1 = 16384 /\ hist[2].a2 = 8
    /\ hist[3].fn = "mbc_write_ram" /\ hist[3].a1 = 49151
    /\ mbc.ram_enable
    /\ mbc.mbc3_ram_bank_or_rtc = 8
    /\ Get(mbc.eram, 8191) = 17
    /\ Get(mbc.eram, 0) = 0
    /\ mbc_read_ram(mbc, 40960) = 255
    /\ mbc_read_ram(mbc, 49151) = 255


---------------------------------------------------------------------------
(* mbc.c: external RAM of a cartridge without a controller (header types   *)
(* 0x08 and 0x09, which load_rom maps onto MBC_TYPE_NONE).                 *)

\* number of controller calls followed from an initial state
MaxNoneOps == 3

NoneCtlWrites == { <<0, 10>>, <<0, 0>>, <<8448, 1>> }

NoneRamWrites == { <<40960, 205>>, <<40960, 17>>, <<49151, 205>> }

\* one call of mbc_write(addr, value)
NoneCtl ==
    /\ nsteps < MaxNoneOps
    /\ \E w \in NoneCtlWrites :
        /\ mbc' = mbc_write(mbc, w[1], w[2])
        /\ Trace("mbc_write", w[1], w[2], 0)
    /\ nsteps' = nsteps + 1
    /\ UNCHANGED <<cpu, mmu, running>>

\* one call of mbc_write_ram(addr, value)
NoneWriteRam ==
    /\ nsteps < MaxNoneOps
    /\ \E w \in NoneRamWrites :
        /\ mbc' = mbc_write_ram(mbc, w[1], w[2])
        /\ Trace("mbc_write_ram", w[1], w[2], 0)
    /\ nsteps' = nsteps + 1
    /\ UNCHANGED <<cpu, mmu, running>>

\* kind None with 32 KiB of ROM, with and without 8 KiB of external RAM
InitNone ==
    \E eram_size \in {0, 8192} :
        Setup(cpu_reset, mmu_init(EmptyArr),
              mbc_buffers(mbc_init("ROM_ONLY"), RomImage(2), 32768, eram_size))

NextNone == NoneCtl \/ NoneWriteRam

SpecNone == InitNone /\ [][NextNone]_vars

\* C36: with kind None and external RAM present, a read of a in
\* 0xA000..0xBFFF returns eram[a - 0xA000]: 0 after init, and after a write
\* the byte written, no RAM-enable write being needed; without external RAM
\* it returns 0xFF.
C36_NoneReadsEram ==
    mbc.mbc_type = "ROM_ONLY" =>
        IF mbc.g_eram_size > 0
        THEN /\ hist = <<>> =>
                 \A a \in EramProbe : mbc_read_ram(mbc, a) = 0
             /\ Called("mbc_write_ram") =>
                 mbc_read_ram(mbc, Last.a1) = Last.a2
        ELSE \A a \in EramProbe : mbc_read_ram(mbc, a) = 255


---------------------------------------------------------------------------
(* The ROM handle across loads.                                            *)

\* C37: after any sequence of mmu_load_rom and mmu_free calls mmu.rom is
\* NULL or a live allocation, never a freed pointer: a failed load leaves no
\* ROM loaded, and no call frees a buffer that was freed already.
C37_RomHandleNeverDangling ==
    /\ mmu.rom_ptr \in {"null", "live"}
    /\ (Called("mmu_load_rom") /\ Last.ret # 0) => mmu.rom_ptr = "null"
    /\ (hist # <<>> /\ Last.fn \in {"mmu_load_rom", "mmu_free"}) =>
           Last.mmu.rom_ptr # "freed"


---------------------------------------------------------------------------
(* Writes to 0x0000..0x7FFF: mbc_write of mbc.c on every kind of           *)
(* cartridge, and mmu_write of mmu.c to the same addresses.                *)

\* number of calls followed from an initial state
MaxCtlOps == 3

\* cartridges: kind, external RAM size
CtlCarts ==
    { <<"ROM_ONLY", 0>>, <<"MBC1", 32768>>, <<"MBC2", 0>>, <<"MBC3", 32768>>,
      <<"MBC5", 32768>> }

\* values written: one that enables RAM, one with every bit set
CtlWriteVals == {10, 255}

\* one call of mbc_write(addr, value)
CtlWrite ==
    /\ nsteps < MaxCtlOps
    /\ \E addr \in CtlAddrs, value \in CtlWriteVals :
        /\ mbc' = mbc_write(mbc, addr, value)
        /\ Record("mbc_write", addr, value, 0)
    /\ nsteps' = nsteps + 1
    /\ UNCHANGED <<cpu, mmu, running>>

\* one call of mmu_write(addr, value) with addr below 0x8000
CtlBusWrite ==
    /\ nsteps < MaxCtlOps
    /\ \E addr \in {0, 12288} :
        /\ mmu' = mmu_write(mmu, addr, 10)
        /\ Record("mmu_write", addr, 10, 0)
    /\ nsteps' = nsteps + 1
    /\ UNCHANGED <<cpu, mbc, running>>

\* one call of mbc_write_ram(0xA000, 0xCD)
CtlRamWrite ==
    /\ nsteps < MaxCtlOps
    /\ mbc' = mbc_write_ram(mbc, 40960, 205)
    /\ Record("mbc_write_ram", 40960, 205, 0)
    /\ nsteps' = nsteps + 1
    /\ UNCHANGED <<cpu, mmu, running>>

InitCtl ==
    \E cart \in CtlCarts :
        Setup(cpu_reset,
              mmu_load_rom(mmu_init(EmptyArr), RomImage(2), 32768),
              mbc_buffers(mbc_init(cart[1]), RomImage(2), 32768, cart[2]))

NextCtl == CtlWrite \/ CtlBusWrite \/ CtlRamWrite

SpecCtl == InitCtl /\ [][NextCtl]_vars

\* the control register a write to addr selects on a cartridge of the kind
SelectedRegister(kind, addr) ==
    CASE kind = "MBC1" ->
           IF addr < 8192 THEN {"ram_enable"}
           ELSE IF addr < 16384 THEN {"mbc1_rom_lo5"}
           ELSE IF addr < 24576 THEN {"mbc1_rom_hi2_or_ram"}
           ELSE {"mbc1_mode"}
      [] kind = "MBC2" ->
           IF addr < 8192 THEN {"ram_enable"}
           ELSE IF addr < 16384 THEN {"mbc2_rom_bank"}
           ELSE {}
      [] kind = "MBC3" ->
           IF addr < 8192 THEN {"ram_enable"}
           ELSE IF addr < 16384 THEN {"mbc3_rom_bank"}
           ELSE IF addr < 24576 THEN {"mbc3_ram_bank_or_rtc"}
           ELSE {"mbc3_latch"}
      [] kind = "MBC5" ->
           IF addr < 8192 THEN {"ram_enable"}
           ELSE IF addr < 16384 THEN {"mbc5_rom_bank"}
           ELSE IF addr < 24576 THEN {"mbc5_ram_bank"}
           ELSE {}
      [] OTHER -> {}

\* the last call was a write to an address in 0x0000..0x7FFF
WroteControl ==
    /\ hist # <<>>
    /\ Last.fn \in {"mbc_write", "mmu_write"}
    /\ Last.a1 < 32768

\* C38: a write to an address in 0x0000..0x7FFF changes at most the control
\* register its address selects on the cartridge's kind (on MBC5 only the
\* low byte or only bit 8 of the ROM bank) and leaves every other control
\* register, the ROM, external RAM, the CPU and all memory of the bus as
\* they were; on kind None it changes nothing.
C38_ControlWriteFrame ==
    WroteControl =>
        /\ cpu = Last.cpu
        /\ mmu = Last.mmu
        /\ \A f \in DOMAIN mbc :
            f \notin SelectedRegister(Last.mbc.mbc_type, Last.a1) =>
                mbc[f] = Last.mbc[f]
        /\ (mbc.mbc_type = "MBC5" /\ Last.a1 \in 8192 .. 12287) =>
               mbc.mbc5_rom_bank \div 256 = Last.mbc.mbc5_rom_bank \div 256
        /\ (mbc.mbc_type = "MBC5" /\ Last.a1 \in 12288 .. 16383) =>
               mbc.mbc5_rom_bank % 256 = Last.mbc.mbc5_rom_bank % 256
        /\ mbc.mbc_type = "ROM_ONLY" => mbc = Last.mbc

\* MBC1 with RAM enabled and 0xCD stored at 0xA000: 0xFF written to 0x6000
\* sets the mode and nothing else
C38_ControlWriteFrame_Witness ==
    /\ Len(hist) = 2
    /\ hist[2].fn = "mbc_write_ram"
    /\ Called("mbc_write") /\ Last.a1 = 24576 /\ Last.a2 = 255
    /\ Last.mbc.mbc_type = "MBC1"
    /\ Last.mbc.mbc1_mode = 0 /\ mbc.mbc1_mode = 1
    /\ Last.mbc.ram_enable /\ mbc.ram_enable
    /\ Get(Last.mbc.eram, 0) = 205 /\ Get(mbc.eram, 0) = 205


---------------------------------------------------------------------------
(* External RAM banks do not alias.                                        *)

\* the RAM bank selected by the control writes made so far
SelectedRamBank ==
    LET sel == LastWritten(16384, 24575, 0)
    IN  CASE mbc.mbc_type = "MBC1" -> sel % 4
          [] mbc.mbc_type = "MBC5" -> sel % 16
          [] OTHER -> sel

\* the last call wrote external RAM with RAM enabled and a bank of the
\* 32 KiB selected, MBC1 being in mode 1
WroteBankedRam ==
    /\ Called("mbc_write_ram")
    /\ Last.mbc.ram_enable
    /\ SelectedRamBank \in 0 .. 3
    /\ mbc.mbc_type = "MBC1" => LastWritten(24576, 32767, 0) % 2 = 1

\* the byte read at addr once bank k has been selected on the cartridge b
ReadInBank(b, k, addr) == mbc_read_ram(mbc_write(b, 16384, k), addr)

\* C39: with external RAM enabled and holding banks 0..3, a write to
\* 0xA000 + o with bank b selected changes the byte read at (b, o) alone:
\* what is read at 0xA000 + o' with a bank b' selected, (b', o') # (b, o), is
\* as before the write, and after selecting another bank and b again the
\* byte written is read back.
C39_RamBanksDoNotAlias ==
    WroteBankedRam =>
        /\ \A k \in 0 .. 3, a \in EramProbe :
            <<k, a>> # <<SelectedRamBank, Last.a1>> =>
                ReadInBank(mbc, k, a) = ReadInBank(Last.mbc, k, a)
        /\ mbc_read_ram(mbc, Last.a1) = Last.a2
        /\ \A k \in 0 .. 3 :
            ReadInBank(mbc_write(mbc, 16384, k), SelectedRamBank, Last.a1)
                = Last.a2

\* MBC1 in mode 1: 0xCD stored at 0xA000 of bank 0, bank 1 selected, 0x11
\* stored at 0xBFFF: bank 1 reads 0 at 0xA000 and bank 0 still reads 0xCD
C39_RamBanksDoNotAlias_Witness ==
    /\ WroteBankedRam
    /\ mbc.mbc_type = "MBC1"
    /\ Len(hist) = 5
    /\ hist[3].fn = "mbc_write_ram" /\ hist[3].a1 = 40960
    /\ hist[3].mbc.ram_enable /\ hist[3].mbc.mbc1_mode = 1
    /\ hist[2].fn = "mbc_write" /\ hist[2].a1 = 16384 /\ hist[2].a2 = 1
    /\ Last.a1 = 49151
    /\ SelectedRamBank = 1
    /\ mbc_read_ram(mbc, 40960) = 0
    /\ mbc_read_ram(mbc, 49151) = 17
    /\ ReadInBank(mbc, 0, 40960) = 205
    /\ ReadInBank(mbc, 0, 49151) = 0


---------------------------------------------------------------------------
(* An interrupt dispatched and returned from: handle_interrupts and        *)
(* cpu_step called in any order on a ROM with RETI at the five vectors.    *)

\* RETI (0xD9) at 0x0040, 0x0048, 0x0050, 0x0058 and 0x0060
RetiRom == [o \in {Vector(i) : i \in 0 .. 4} |-> 217]

\* stack pointers: in HRAM, work RAM, at the start of the address space, in
\* ROM, in the unusable region
RetiSPs == {65534, 53250, 0, 16384, 65185}

InitReti ==
    \E ime \in BOOLEAN, pc \in {336, 49407}, sp \in RetiSPs,
       intf \in IntFlags, inte \in IntEnables :
        Setup([cpu_reset EXCEPT !.ime = ime, !.PC = pc, !.SP = sp],
              [mmu_init(RetiRom) EXCEPT !.interrupt_flag = intf,
                                        !.interrupt_enable = inte],
              mbc_init("ROM_ONLY"))

NextReti == HandleInterrupts \/ Step

SpecReti == InitReti /\ [][NextReti]_vars

\* the call e of handle_interrupts dispatched an interrupt
Dispatched(e) ==
    e.fn = "handle_interrupts" /\ e.cpu.ime /\ Pending(e.mmu) # 0

\* both bytes pushed from SP = sp lie in work RAM, its echo or HRAM
StackInRam(sp) ==
    \A a \in {U16(sp - 1), U16(sp - 2)} :
        (a >= 49152 /\ a <= 65023) \/ (a >= 65408 /\ a <= 65534)

\* C40: a dispatch by handle_interrupts from PC = p and SP = s, the stack in
\* writable RAM, followed by RETI ends with PC = p, SP = s and ime set; after
\* the dispatch ime is clear, and a further call of handle_interrupts
\* dispatches nothing whatever IF holds.
C40_DispatchRetiRoundTrip ==
    /\ (hist # <<>> /\ Dispatched(Last)) => ~cpu.ime
    /\ (Len(hist) = 2 /\ Dispatched(hist[2])) =>
        /\ (hist[1].fn = "cpu_step" /\ hist[1].a1 = 217
            /\ StackInRam(hist[2].cpu.SP)) =>
               /\ hist[1].cpu.SP = U16(hist[2].cpu.SP - 2)
               /\ cpu.PC = hist[2].cpu.PC
               /\ cpu.SP = hist[2].cpu.SP
               /\ cpu.ime
        /\ hist[1].fn = "handle_interrupts" =>
               /\ cpu = hist[1].cpu
               /\ mmu = hist[1].mmu

\* timer and joypad pending and enabled, PC = 0xC0FF, SP = 0xD002: the timer
\* interrupt was dispatched to 0x0050 with joypad still pending, and RETI
\* came back
C40_DispatchRetiRoundTrip_Witness ==
    /\ Len(hist) = 2
    /\ Dispatched(hist[2])
    /\ Pending(hist[2].mmu) = 20
    /\ hist[2].cpu.PC = 49407 /\ hist[2].cpu.SP = 53250
    /\ hist[1].fn = "cpu_step" /\ hist[1].a1 = 217
    /\ hist[1].cpu.PC = 80 /\ hist[1].cpu.SP = 53248
    /\ ~hist[1].cpu.ime
    /\ Pending(hist[1].mmu) = 16
    /\ cpu.PC = 49407 /\ cpu.SP = 53250 /\ cpu.ime

=============================================================================
